---- MODULE Spec2Model ----
(***************************************************************************)
(* AeroLens: the flight filtering, price-range and best-value core.        *)
(*                                                                         *)
(* Strings of the program (ids, price.total, itinerary durations) are kept *)
(* as TLA+ strings; Chars spells each one out so that parseFloat, the      *)
(* duration regexes and localeCompare work on the characters.              *)
(*                                                                         *)
(* Numbers: prices are carried in hundredths (parseFloat of a string with  *)
(* at most two fraction digits is exact in hundredths); the median and the *)
(* duration threshold are carried in tenths of a minute, where             *)
(* (a + b) / 2 and median * 1.2 are exact for integer minutes.             *)
(***************************************************************************)
EXTENDS Integers, Sequences, FiniteSets, TLC

VARIABLES
  \* one call of a core function: its input list, the call, its result
  flights, call, ret,
  \* app/page (Home) and the useFlightSearch hook it renders with
  searchResponse, loading, error, filterState, prevLoadingRef, lengthDep,
  effectsPending, filteredFlights, bestValueFlightId,
  \* one request to POST /api/flights/search
  reqBody, credentials, pc, params, upstream, response,
  \* useFlightSearch and debounce, with the runtime's timers
  debounced, isMountedRef, hook, debounceTimeoutRef, timeout, timers, sent,
  log,
  \* one request to GET /api/locations/airports
  airportsPc, countryCode, lookups, seen, airportsResponse,
  \* FlightSearchForm
  originCountryCode, destinationCountryCode, origin, destination,
  originAirports, destinationAirports, loadingOriginAirports,
  loadingDestinationAirports, fetches

coreVars == <<flights, call, ret>>

routeVars == <<reqBody, credentials, pc, params, upstream, response>>

pageVars ==
  <<searchResponse, loading, error, filterState, prevLoadingRef, lengthDep,
    effectsPending, filteredFlights, bestValueFlightId>>

hookVars ==
  <<debounced, isMountedRef, hook, debounceTimeoutRef, timeout, timers, sent,
    log>>

airportsVars == <<airportsPc, countryCode, lookups, seen, airportsResponse>>

formVars ==
  <<originCountryCode, destinationCountryCode, origin, destination,
    originAirports, destinationAirports, loadingOriginAirports,
    loadingDestinationAirports, fetches>>

vars == <<coreVars, pageVars, routeVars, hookVars, airportsVars, formVars>>

\* Longest offer list the model draws.
MaxLen == 3

NULL == "null"
\* A JS number as returned by parseFloat: NaN, or a value in hundredths.
NaN == [nan |-> TRUE, v |-> 0]
Num(x) == [nan |-> FALSE, v |-> x]

----------------------------------------------------------------------------
(* Characters *)

Chars ==
     "1" :> <<"1">> @@ "2" :> <<"2">> @@ "3" :> <<"3">>
  @@ "a" :> <<"a">> @@ "b" :> <<"b">> @@ "c" :> <<"c">>
  @@ "n" :> <<"n">> @@ "m" :> <<"m">>
  @@ "100" :> <<"1", "0", "0">>
  @@ "90" :> <<"9", "0">>
  @@ "95" :> <<"9", "5">>
  @@ "150" :> <<"1", "5", "0">>
  @@ "200.00" :> <<"2", "0", "0", ".", "0", "0">>
  @@ "-50.5" :> <<"-", "5", "0", ".", "5">>
  @@ "abc" :> <<"a", "b", "c">>
  @@ "PT2H" :> <<"P", "T", "2", "H">>
  @@ "PT1H" :> <<"P", "T", "1", "H">>
  @@ "PT3H" :> <<"P", "T", "3", "H">>
  @@ "PT2H30M" :> <<"P", "T", "2", "H", "3", "0", "M">>
  @@ "PT45M" :> <<"P", "T", "4", "5", "M">>
  @@ "2h" :> <<"2", "h">>
  @@ "" :> <<>>
  @@ "0" :> <<"0">>
  @@ "12abc" :> <<"1", "2", "a", "b", "c">>
  @@ "$100" :> <<"$", "1", "0", "0">>
  @@ " 42" :> <<" ", "4", "2">>
  @@ ".5" :> <<".", "5">>
  @@ "-" :> <<"-">>
  @@ "1,200.50" :> <<"1", ",", "2", "0", "0", ".", "5", "0">>
  @@ "PT" :> <<"P", "T">>
  @@ "90M" :> <<"9", "0", "M">>
  @@ "PT10H5M" :> <<"P", "T", "1", "0", "H", "5", "M">>
  @@ "30M2H" :> <<"3", "0", "M", "2", "H">>
  @@ "PT2h30m" :> <<"P", "T", "2", "h", "3", "0", "m">>
  @@ "P1DT2H" :> <<"P", "1", "D", "T", "2", "H">>
  @@ "PT1H5" :> <<"P", "T", "1", "H", "5">>
  @@ "12X3H" :> <<"1", "2", "X", "3", "H">>

DigitVal ==
     "0" :> 0 @@ "1" :> 1 @@ "2" :> 2 @@ "3" :> 3 @@ "4" :> 4
  @@ "5" :> 5 @@ "6" :> 6 @@ "7" :> 7 @@ "8" :> 8 @@ "9" :> 9

IsDigit(c) == c \in DOMAIN DigitVal

\* Index just past the maximal run of digits of s that starts at i.
RECURSIVE DigitsEnd(_, _)
DigitsEnd(s, i) ==
  IF i <= Len(s) /\ IsDigit(s[i]) THEN DigitsEnd(s, i + 1) ELSE i

\* Decimal value of the digits s[i] .. s[j - 1] (0 for an empty run).
RECURSIVE DigitsValue(_, _, _)
DigitsValue(s, i, j) ==
  IF j <= i THEN 0 ELSE DigitsValue(s, i, j - 1) * 10 + DigitVal[s[j - 1]]

----------------------------------------------------------------------------
(* Parsing *)

RECURSIVE SkipWhiteSpace(_, _)
SkipWhiteSpace(s, i) ==
  IF i <= Len(s) /\ s[i] = " " THEN SkipWhiteSpace(s, i + 1) ELSE i

\* The digits and the optional fraction of a decimal literal of s: neg is
\* its sign, i1 the index of its first digit, e1 the index past its
\* integer digits.
StrDigits(s, neg, i1, e1) ==
  LET hasDot == e1 <= Len(s) /\ s[e1] = "."
      e2 == IF hasDot THEN DigitsEnd(s, e1 + 1) ELSE e1
      nFrac == IF hasDot THEN e2 - (e1 + 1) ELSE 0
      frac == IF nFrac = 0 THEN 0
              ELSE IF nFrac = 1 THEN DigitVal[s[e1 + 1]] * 10
              ELSE DigitsValue(s, e1 + 1, e1 + 3)
      mag == DigitsValue(s, i1, e1) * 100 + frac
  IN IF e1 = i1 /\ nFrac = 0 THEN NaN
     ELSE IF neg THEN Num(0 - mag) ELSE Num(mag)

\* The decimal literal of s that starts at i0, after the white space.
StrDecimalLiteral(s, i0) ==
  StrDigits(s,
            i0 <= Len(s) /\ s[i0] = "-",
            IF i0 <= Len(s) /\ s[i0] \in {"-", "+"} THEN i0 + 1 ELSE i0,
            DigitsEnd(s, IF i0 <= Len(s) /\ s[i0] \in {"-", "+"}
                         THEN i0 + 1 ELSE i0))

\* parseFloat: leading white space, an optional sign, digits, an optional
\* fraction; NaN when no digit is found; trailing characters are ignored.
\* The value is in hundredths (fraction digits past the second are not
\* drawn by this model, nor are exponents or "Infinity").
parseFloat(str) ==
  StrDecimalLiteral(Chars[str], SkipWhiteSpace(Chars[str], 1))

\* x || 0 on a number: NaN and 0 are falsy.
OrZero(x) == IF x.nan THEN 0 ELSE x.v

parsePrice(priceString) == OrZero(parseFloat(priceString))

\* iso.match(/(\d+)<unit>/)?.[1] ?? "0", then parseInt(.., 10): the value of
\* the leftmost run of digits that is directly followed by the unit letter.
RECURSIVE MatchGroup(_, _, _)
MatchGroup(s, unit, i) ==
  IF i > Len(s) THEN 0
  ELSE IF IsDigit(s[i])
       THEN LET e == DigitsEnd(s, i)
            IN IF e <= Len(s) /\ s[e] = unit
               THEN DigitsValue(s, i, e)
               ELSE MatchGroup(s, unit, e)
       ELSE MatchGroup(s, unit, i + 1)

\* Variant: only the hour group is read.
parseDurationHoursOnly(iso) == MatchGroup(Chars[iso], "H", 1) * 60

parseDurationToMinutes(iso) ==
  LET hours == MatchGroup(Chars[iso], "H", 1)
      minutes == MatchGroup(Chars[iso], "M", 1)
  IN hours * 60 + minutes

----------------------------------------------------------------------------
(* Offers *)

Segment(carrier, stopsInLeg) ==
  [carrierCode |-> carrier, numberOfStops |-> stopsInLeg]

Itinerary(dur, segs) == [duration |-> dur, segments |-> segs]

Offer(ident, total, its) ==
  [id |-> ident, price |-> [total |-> total], itineraries |-> its]

\* The offers a search response is drawn from: the three offers of the
\* best-value scenario, two equally priced offers (one of them a round
\* trip), and offers with no itinerary, no segment, a negative price and
\* unparsable strings.
Offers ==
  { Offer("1", "100", <<Itinerary("PT2H", <<Segment("AA", 0)>>)>>),
    Offer("2", "90", <<Itinerary("PT2H",
                         <<Segment("BA", 1), Segment("AA", 1)>>)>>),
    Offer("3", "95", <<Itinerary("PT2H30M",
                         <<Segment("DL", 0), Segment("DL", 0)>>)>>),
    Offer("a", "150", <<Itinerary("PT3H", <<Segment("BA", 1)>>)>>),
    Offer("b", "150", <<Itinerary("PT1H", <<Segment("AA", 0)>>),
                        Itinerary("PT2H", <<Segment("BA", 1)>>)>>),
    Offer("c", "200.00", <<>>),
    Offer("n", "-50.5", <<Itinerary("PT45M", <<>>)>>),
    Offer("m", "abc", <<Itinerary("2h", <<Segment("DL", 3)>>)>>) }

\* Offer ids are unique within one response: the lists drawn hold each
\* offer at most once.
OfferLists ==
  UNION { { s \in [1..n -> Offers] :
              \A i, j \in 1..n : i # j => s[i] # s[j] } : n \in 0..MaxLen }

----------------------------------------------------------------------------
(* Sequence helpers: Array.prototype.filter / map / reduce / sort *)

\* Array.prototype.filter: the elements whose callback result keep[i] is
\* true, in input order.
Filter(s, keep) ==
  LET kept == { i \in 1..Len(s) : keep[i] }
      Nth(k) == CHOOSE i \in kept :
                  Cardinality({ j \in kept : j < i }) = k - 1
  IN [k \in 1..Cardinality(kept) |-> s[Nth(k)]]

RECURSIVE SumSeq(_)
SumSeq(s) == IF s = <<>> THEN 0 ELSE s[1] + SumSeq(Tail(s))

RECURSIVE FlatSegments(_)
\* The segments of all itineraries, in visiting order.
FlatSegments(its) ==
  IF its = <<>> THEN <<>> ELSE its[1].segments \o FlatSegments(Tail(its))

\* Array.prototype.sort with a comparator: a stable sort, so the element at
\* index i lands after every element that compares lower and after every
\* element that compares equal and stood before it.
\* cmp[j, i] is the comparator's result on (s[j], s[i]).
Sort(s, cmp) ==
  LET Before(i) == { j \in 1..Len(s) :
                       \/ cmp[j, i] < 0
                       \/ cmp[j, i] = 0 /\ j < i }
      At(k) == CHOOSE i \in 1..Len(s) : Cardinality(Before(i)) = k - 1
  IN [k \in 1..Len(s) |-> s[At(k)]]

MinOf(S) == CHOOSE x \in S : \A y \in S : x <= y
MaxOf(S) == CHOOSE x \in S : \A y \in S : y <= x
Max2(a, b) == IF a >= b THEN a ELSE b

\* Math.floor / Math.ceil of a value given in hundredths.
Floor100(x) == x \div 100
Ceil100(x) == 0 - ((0 - x) \div 100)

----------------------------------------------------------------------------
(* lib/utils *)

\* Variant: an itinerary counts one stop per connection between its
\* segments.
getTotalStopsByConnections(flight) ==
  SumSeq([i \in 1..Len(flight.itineraries) |->
            Len(flight.itineraries[i].segments) - 1])

getTotalStops(flight) ==
  SumSeq([i \in 1..Len(flight.itineraries) |->
            SumSeq([j \in 1..Len(flight.itineraries[i].segments) |->
                      flight.itineraries[i].segments[j].numberOfStops])])

RECURSIVE AddCodes(_, _)
\* Set.add of every carrier code in order; Array.from keeps insertion order.
AddCodes(codes, segs) ==
  IF segs = <<>> THEN codes
  ELSE AddCodes(IF \E k \in 1..Len(codes) : codes[k] = segs[1].carrierCode
                THEN codes
                ELSE Append(codes, segs[1].carrierCode),
                Tail(segs))

getAirlineCodes(flight) == AddCodes(<<>>, FlatSegments(flight.itineraries))

Includes(arr, x) == \E k \in 1..Len(arr) : arr[k] = x

\* Variant: 2plus read as exactly two stops.
StopsMatchExactlyTwo(totalStops, stops) ==
  CASE stops = "nonstop" -> totalStops = 0
    [] stops = "1stop" -> totalStops = 1
    [] stops = "2plus" -> totalStops = 2
    [] OTHER -> TRUE

StopsMatch(totalStops, stops) ==
  CASE stops = "nonstop" -> totalStops = 0
    [] stops = "1stop" -> totalStops = 1
    [] stops = "2plus" -> totalStops >= 2
    [] OTHER -> TRUE

filterByStops(fl, stops) ==
  IF stops = "all" THEN fl
  ELSE Filter(fl, [i \in 1..Len(fl) |->
                     StopsMatch(getTotalStops(fl[i]), stops)])

\* Variant: the upper bound is exclusive.
PriceBelowMax(price, min, max) == price >= min * 100 /\ price < max * 100

PriceInRange(price, min, max) == price >= min * 100 /\ price <= max * 100

filterByPrice(fl, min, max) ==
  Filter(fl, [i \in 1..Len(fl) |->
                PriceInRange(parsePrice(fl[i].price.total), min, max)])

\* Variant: every carrier of the offer must be selected.
AirlinesAllMatch(flightAirlines, airlines) ==
  \A k \in 1..Len(flightAirlines) : Includes(airlines, flightAirlines[k])

AirlinesMatch(flightAirlines, airlines) ==
  \E k \in 1..Len(flightAirlines) : Includes(airlines, flightAirlines[k])

filterByAirlines(fl, airlines) ==
  IF Len(airlines) = 0 THEN fl
  ELSE Filter(fl, [i \in 1..Len(fl) |->
                     AirlinesMatch(getAirlineCodes(fl[i]), airlines)])

\* Variant: the cohort pipeline stops after the stops filter.
applyStopsOnly(fl, stops, airlines) ==
  filterByStops(fl, stops)

applyStopsAndAirlinesOnly(fl, stops, airlines) ==
  LET byStops == filterByStops(fl, stops)
  IN filterByAirlines(byStops, airlines)

\* Variant: the filtered offers are handed back cheapest first.
CompareOfferPrice(a, b) ==
  parsePrice(a.price.total) - parsePrice(b.price.total)

applyAllFiltersCheapestFirst(fl, fState) ==
  LET out == filterByAirlines(
               filterByPrice(filterByStops(fl, fState.stops),
                             fState.priceRange[1],
                             fState.priceRange[2]),
               fState.airlines)
  IN Sort(out, [i \in 1..Len(out), j \in 1..Len(out) |->
                  CompareOfferPrice(out[i], out[j])])

applyAllFilters(fl, fState) ==
  LET f1 == filterByStops(fl, fState.stops)
      f2 == filterByPrice(f1, fState.priceRange[1],
                          fState.priceRange[2])
  IN filterByAirlines(f2, fState.airlines)

----------------------------------------------------------------------------
(* app/page: getPriceRange *)

RangeOf(min, max) == <<Max2(0, min), Max2(max, min + 100)>>

getPriceRange(fl) ==
  IF Len(fl) = 0 THEN <<0, 1000>>
  ELSE LET prices == { OrZero(parseFloat(fl[i].price.total)) :
                         i \in 1..Len(fl) }
           min == Floor100(MinOf(prices))
           max == Ceil100(MaxOf(prices))
       IN RangeOf(min, max)

----------------------------------------------------------------------------
(* lib/bestValue *)

MAX_STOPS == 1

\* DURATION_MULTIPLIER = 1.2, in tenths.
DURATION_MULTIPLIER_X10 == 12

getTotalDurationMinutes(flight) ==
  SumSeq([i \in 1..Len(flight.itineraries) |->
            parseDurationToMinutes(flight.itineraries[i].duration)])

\* Collation rank of the characters offer ids are written with: digits
\* before letters, letters in alphabetical order.
CollationRank ==
     "0" :> 0 @@ "1" :> 1 @@ "2" :> 2 @@ "3" :> 3 @@ "4" :> 4
  @@ "5" :> 5 @@ "6" :> 6 @@ "7" :> 7 @@ "8" :> 8 @@ "9" :> 9
  @@ "a" :> 10 @@ "b" :> 11 @@ "c" :> 12 @@ "m" :> 13 @@ "n" :> 14

RECURSIVE CompareChars(_, _)
CompareChars(s, t) ==
  IF s = <<>> /\ t = <<>> THEN 0
  ELSE IF s = <<>> THEN 0 - 1
  ELSE IF t = <<>> THEN 1
  ELSE IF CollationRank[s[1]] < CollationRank[t[1]] THEN 0 - 1
  ELSE IF CollationRank[s[1]] > CollationRank[t[1]] THEN 1
  ELSE CompareChars(Tail(s), Tail(t))

localeCompare(a, b) == CompareChars(Chars[a], Chars[b])

withMeta(fl) ==
  [i \in 1..Len(fl) |->
     [id |-> fl[i].id,
      price |-> OrZero(parseFloat(fl[i].price.total)),
      stops |-> getTotalStops(fl[i]),
      durationMinutes |-> getTotalDurationMinutes(fl[i])]]

CompareNumbers(a, b) == a - b

\* Variant: the mean instead of the median, in tenths of a minute.
meanDuration(durations) == (SumSeq(durations) * 10) \div Len(durations)

\* Median of a non-empty ascending sequence of minutes, in tenths of a minute.
median(durations) ==
  LET n == Len(durations)
  IN IF n % 2 = 0
     THEN (durations[n \div 2] + durations[n \div 2 + 1]) * 5
     ELSE durations[n \div 2 + 1] * 10

\* durations: the total durations of the offers, sorted ascending.
sortedDurations(meta) ==
  Sort([i \in 1..Len(meta) |-> meta[i].durationMinutes],
       [i \in 1..Len(meta), j \in 1..Len(meta) |->
          CompareNumbers(meta[i].durationMinutes, meta[j].durationMinutes)])

\* median * DURATION_MULTIPLIER, in tenths of a minute.
maxDuration(med) == (med * DURATION_MULTIPLIER_X10) \div 10

\* Variant: offers with exactly MAX_STOPS stops do not qualify.
QualifiesBelowMaxStops(f, maxDur) ==
  f.stops < MAX_STOPS /\ f.durationMinutes * 10 <= maxDur

Qualifies(f, maxDur) ==
  f.stops <= MAX_STOPS /\ f.durationMinutes * 10 <= maxDur

qualifying(meta, maxDur) ==
  Filter(meta, [i \in 1..Len(meta) |-> Qualifies(meta[i], maxDur)])

\* Variant: no fallback to the full list.
candidatesWithoutFallback(qual, meta) == qual

candidates(qual, meta) == IF Len(qual) > 0 THEN qual ELSE meta

\* Variant: no tie-break on the id.
ComparePriceOnly(a, b) == a.price - b.price

ComparePrice(a, b) ==
  IF a.price # b.price THEN a.price - b.price ELSE localeCompare(a.id, b.id)

byPrice(cands) ==
  Sort(cands, [i \in 1..Len(cands), j \in 1..Len(cands) |->
                 ComparePrice(cands[i], cands[j])])

\* byPrice[0]?.id ?? null
FirstId(sorted) == IF Len(sorted) > 0 THEN sorted[1].id ELSE NULL

\* The steps of getBestValueFlightId after withMeta.
medianOf(meta) == median(sortedDurations(meta))

qualifyingOf(meta) == qualifying(meta, maxDuration(medianOf(meta)))

bestValueOf(meta) == FirstId(byPrice(candidates(qualifyingOf(meta), meta)))

getBestValueFlightId(fl) ==
  IF Len(fl) = 0 THEN NULL ELSE bestValueOf(withMeta(fl))

----------------------------------------------------------------------------
(* hooks/useFlightSearch (both revisions) and the debounce helper,         *)
(* with the timer table of the JS runtime                                  *)
(*                                                                         *)
(* debounced tells which revision of the hook the component renders with.  *)
(* hook holds the three useState cells as the setters last set them.       *)
(* timers is the runtime's table of armed timeouts; a timer id is a        *)
(* positive number and 0 stands for null in the two places that hold one.  *)
(* sent lists the searchFlights calls with the state of their promise.     *)
(* log records every call of search or of the debounced function and       *)
(* every run of the function a timer was armed for.                        *)

\* Calls of search and of the debounced function in one behaviour.
MaxCalls == 3

SearchParams == {"JFK-LHR", "LHR-JFK"}

NoFlights == [held |-> FALSE, request |-> 0]

\* The response of the k-th searchFlights call.
ResponseOf(k) == [held |-> TRUE, request |-> k]

CallEvent(fn, args, mounted) ==
  [ev |-> "call", fn |-> fn, args |-> args, mounted |-> mounted]

RunEvent(fn, args, mounted) ==
  [ev |-> "run", fn |-> fn, args |-> args, mounted |-> mounted]

CallsMade(events) ==
  Cardinality({ i \in 1..Len(events) : events[i].ev = "call" })

\* setTimeout(fn, delay): the table with a new timer, whose id is fresh.
setTimeout(table, id, fn, args) ==
  table \cup {[id |-> id, fn |-> fn, args |-> args]}

\* Variant: the timer that is being replaced stays armed.
clearTimeoutForgotten(table, id) == table

\* clearTimeout(id): no effect when no armed timer has this id.
clearTimeout(table, id) == { t \in table : t.id # id }

HookIdle ==
  /\ debounced = FALSE
  /\ isMountedRef = TRUE
  /\ hook = [flights |-> NoFlights, loading |-> FALSE, error |-> NULL]
  /\ debounceTimeoutRef = 0
  /\ timeout = 0
  /\ timers = {}
  /\ sent = <<>>
  /\ log = <<>>

\* Variant: a rejected search records the error and leaves loading set.
stateAfterRejectStillLoading(cells, mounted) ==
  IF mounted THEN [cells EXCEPT !.error = "Error"] ELSE cells

\* Variant: a resolved search stores the response and leaves loading set.
stateAfterResolveStillLoading(cells, mounted, k) ==
  IF mounted THEN [cells EXCEPT !.flights = ResponseOf(k)] ELSE cells

\* search / performSearch up to the await: the cells after
\* setLoading(true) and setError(null).
stateAfterStart(cells) == [cells EXCEPT !.loading = TRUE, !.error = NULL]

\* The try branch after the await.
stateAfterResolve(cells, mounted, k) ==
  IF mounted
  THEN [cells EXCEPT !.flights = ResponseOf(k), !.loading = FALSE]
  ELSE cells

\* The catch branch.
stateAfterReject(cells, mounted) ==
  IF mounted
  THEN [cells EXCEPT !.error = "Error", !.loading = FALSE]
  ELSE cells

\* The body search (first revision) and performSearch (second revision)
\* share, up to the await of searchFlights.
performSearch(searchParams) ==
  IF ~isMountedRef
  THEN UNCHANGED <<hook, sent>>
  ELSE /\ hook' = stateAfterStart(hook)
       /\ sent' = Append(sent, [params |-> searchParams, state |-> "pending"])

\* First revision: search(params).
Search(searchParams) ==
  /\ ~debounced
  /\ CallsMade(log) < MaxCalls
  /\ log' = Append(log, CallEvent("search", searchParams, isMountedRef))
  /\ performSearch(searchParams)
  /\ UNCHANGED <<debounced, isMountedRef, debounceTimeoutRef, timeout, timers>>
  /\ UNCHANGED <<coreVars, pageVars, routeVars, airportsVars, formVars>>

\* Second revision: search(params) clears the timer it holds, sets loading
\* and arms a new timer.
DebouncedSearch(searchParams) ==
  /\ debounced
  /\ CallsMade(log) < MaxCalls
  /\ log' = Append(log, CallEvent("search", searchParams, isMountedRef))
  /\ timers' = setTimeout(clearTimeout(timers, debounceTimeoutRef),
                          CallsMade(log) + 1, "performSearch", searchParams)
  /\ debounceTimeoutRef' = CallsMade(log) + 1
  /\ hook' = stateAfterStart(hook)
  /\ UNCHANGED <<debounced, isMountedRef, timeout, sent>>
  /\ UNCHANGED <<coreVars, pageVars, routeVars, airportsVars, formVars>>

\* The delay of the hook's timer has elapsed: performSearch(params).
DebounceTimerFires(t) ==
  /\ t \in timers
  /\ t.fn = "performSearch"
  /\ timers' = timers \ {t}
  /\ log' = Append(log, RunEvent("search", t.args, isMountedRef))
  /\ performSearch(t.args)
  /\ UNCHANGED <<debounced, isMountedRef, debounceTimeoutRef, timeout>>
  /\ UNCHANGED <<coreVars, pageVars, routeVars, airportsVars, formVars>>

\* The promise of the k-th searchFlights call resolves.
SearchFlightsResolves(k) ==
  /\ k \in 1..Len(sent)
  /\ sent[k].state = "pending"
  /\ sent' = [sent EXCEPT ![k].state = "resolved"]
  /\ hook' = stateAfterResolve(hook, isMountedRef, k)
  /\ UNCHANGED <<debounced, isMountedRef, debounceTimeoutRef, timeout,
                 timers, log>>
  /\ UNCHANGED <<coreVars, pageVars, routeVars, airportsVars, formVars>>

\* The promise of the k-th searchFlights call rejects.
SearchFlightsRejects(k) ==
  /\ k \in 1..Len(sent)
  /\ sent[k].state = "pending"
  /\ sent' = [sent EXCEPT ![k].state = "rejected"]
  /\ hook' = stateAfterReject(hook, isMountedRef)
  /\ UNCHANGED <<debounced, isMountedRef, debounceTimeoutRef, timeout,
                 timers, log>>
  /\ UNCHANGED <<coreVars, pageVars, routeVars, airportsVars, formVars>>

\* The cleanup of the mount effect.
Unmount ==
  /\ isMountedRef
  /\ isMountedRef' = FALSE
  /\ timers' = IF debounced THEN clearTimeout(timers, debounceTimeoutRef)
               ELSE timers
  /\ UNCHANGED <<debounced, hook, debounceTimeoutRef, timeout, sent, log>>
  /\ UNCHANGED <<coreVars, pageVars, routeVars, airportsVars, formVars>>

ClearError ==
  /\ hook' = [hook EXCEPT !.error = NULL]
  /\ UNCHANGED <<debounced, isMountedRef, debounceTimeoutRef, timeout,
                 timers, sent, log>>
  /\ UNCHANGED <<coreVars, pageVars, routeVars, airportsVars, formVars>>

\* debounce(func, wait): a call of the function it returned.
ExecutedFunction(args) ==
  /\ CallsMade(log) < MaxCalls
  /\ log' = Append(log, CallEvent("executedFunction", args, isMountedRef))
  /\ timers' = setTimeout(clearTimeout(timers, timeout),
                          CallsMade(log) + 1, "later", args)
  /\ timeout' = CallsMade(log) + 1
  /\ UNCHANGED <<debounced, isMountedRef, hook, debounceTimeoutRef, sent>>
  /\ UNCHANGED <<coreVars, pageVars, routeVars, airportsVars, formVars>>

\* debounce: the timer runs later, which calls func(...args).
Later(t) ==
  /\ t \in timers
  /\ t.fn = "later"
  /\ timers' = timers \ {t}
  /\ timeout' = 0
  /\ log' = Append(log, RunEvent("executedFunction", t.args, isMountedRef))
  /\ UNCHANGED <<debounced, isMountedRef, hook, debounceTimeoutRef, sent>>
  /\ UNCHANGED <<coreVars, pageVars, routeVars, airportsVars, formVars>>

\* Variant: the submit button stays enabled while loading.
OnFormSubmitWhileLoading(searchParams) ==
  \/ Search(searchParams)
  \/ DebouncedSearch(searchParams)

\* FlightSearchForm: onFormSubmit -> onSubmit -> handleSearch -> search.
\* The submit button is disabled while the hook's loading is set.
OnFormSubmit(searchParams) ==
  /\ ~hook.loading
  /\ \/ Search(searchParams)
     \/ DebouncedSearch(searchParams)

----------------------------------------------------------------------------
(* app/api/locations/airports/route: GET                                   *)
(*                                                                         *)
(* One behaviour is one request.  The countryCode query parameter is a     *)
(* record of whether it is present and its characters.  lookups holds, per *)
(* keyword, the state of its getAmadeusLocations promise and the locations *)
(* it resolved with; seen is the Map, its entries in insertion order.        *)

\* Keywords the handler looks up (the source has the 26 letters).
MaxKeywords == 3

KEYWORDS == SubSeq(<<"A", "B", "C", "D", "E">>, 1, MaxKeywords)

QueryParam(present, chars) == [present |-> present, chars |-> chars]

CountryCodes ==
  {QueryParam(FALSE, <<>>), QueryParam(TRUE, <<>>),
   QueryParam(TRUE, <<"U">>), QueryParam(TRUE, <<"u", "s">>),
   QueryParam(TRUE, <<"U", "S">>), QueryParam(TRUE, <<"U", "S", "A">>)}

\* An AmadeusLocation; its name is written with the characters localeCompare
\* ranks.
Location(iataCode, name) == [iataCode |-> iataCode, name |-> name]

\* What one lookup can resolve with: nothing, a location found under two
\* names, a location without a code, the same code twice in one answer.
LookupResults ==
  {<<>>,
   <<Location("JFK", "b")>>,
   <<Location("LGA", "a"), Location("JFK", "m")>>,
   <<Location("", "c"), Location("LGA", "a"), Location("LGA", "n")>>}

NoLookups == [i \in 1..Len(KEYWORDS) |-> [state |-> "not started", data |-> <<>>]]

NoAirportsResponse == [status |-> 0, error |-> NULL, airports |-> <<>>]

AirportsJson(status, err, airports) ==
  [status |-> status, error |-> err, airports |-> airports]

RECURSIVE seenAfterPush(_, _)
\* Variant: every location with a code is kept.
seenAfterPush(entries, data) ==
  IF data = <<>> THEN entries
  ELSE seenAfterPush(IF data[1].iataCode # "" THEN Append(entries, data[1])
                     ELSE entries,
                     Tail(data))

RECURSIVE seenAfter(_, _)
\* for (const loc of res.data ?? []):
\*   if (loc.iataCode && !seen.has(loc.iataCode)) seen.set(loc.iataCode, loc)
seenAfter(entries, data) ==
  IF data = <<>> THEN entries
  ELSE seenAfter(IF /\ data[1].iataCode # ""
                    /\ \A i \in 1..Len(entries) :
                         entries[i].iataCode # data[1].iataCode
                 THEN Append(entries, data[1])
                 ELSE entries,
                 Tail(data))

sortByName(list) ==
  Sort(list, [i \in 1..Len(list), j \in 1..Len(list) |->
                localeCompare(list[i].name, list[j].name)])

\* Array.from(seen.values()).filter(...).map(...).sort(by name); every
\* location the model draws has a name.
airportsOf(entries) ==
  sortByName(Filter(entries,
                    [i \in 1..Len(entries) |-> entries[i].iataCode # ""]))

AirportsIdle ==
  /\ airportsPc = "idle"
  /\ countryCode = QueryParam(FALSE, <<>>)
  /\ lookups = NoLookups
  /\ seen = <<>>
  /\ airportsResponse = NoAirportsResponse

\* if (!countryCode || countryCode.length !== 2)
CheckCountryCode ==
  /\ airportsPc = "start"
  /\ IF ~countryCode.present \/ Len(countryCode.chars) # 2
     THEN /\ airportsResponse' =
               AirportsJson(400, "countryCode (ISO 3166-1 alpha-2) is required",
                            <<>>)
          /\ airportsPc' = "done"
     ELSE /\ airportsPc' = "token"
          /\ UNCHANGED airportsResponse
  /\ UNCHANGED <<countryCode, lookups, seen>>
  /\ UNCHANGED <<coreVars, pageVars, routeVars, hookVars, formVars>>

\* getAmadeusAccessToken throws: a credential is unset, or the token fetch
\* fails.
AirportsTokenFails ==
  /\ airportsPc = "token"
  /\ airportsResponse' = AirportsJson(200, "Amadeus unavailable", <<>>)
  /\ airportsPc' = "done"
  /\ UNCHANGED <<countryCode, lookups, seen>>
  /\ UNCHANGED <<coreVars, pageVars, routeVars, hookVars, formVars>>

\* The token arrives; KEYWORDS.map starts every lookup.
AirportsTokenArrives ==
  /\ airportsPc = "token"
  /\ credentials
  /\ lookups' = [i \in 1..Len(KEYWORDS) |-> [state |-> "pending", data |-> <<>>]]
  /\ airportsPc' = "lookups"
  /\ UNCHANGED <<countryCode, seen, airportsResponse>>
  /\ UNCHANGED <<coreVars, pageVars, routeVars, hookVars, formVars>>

\* The lookup of KEYWORDS[i] resolves and its locations are entered.
LookupResolves(i, data) ==
  /\ airportsPc = "lookups"
  /\ lookups[i].state = "pending"
  /\ lookups' = [lookups EXCEPT ![i] = [state |-> "ok", data |-> data]]
  /\ seen' = seenAfter(seen, data)
  /\ UNCHANGED <<countryCode, airportsPc, airportsResponse>>
  /\ UNCHANGED <<coreVars, pageVars, routeVars, hookVars, formVars>>

\* The lookup of KEYWORDS[i] throws; the catch ignores it.
LookupRejects(i) ==
  /\ airportsPc = "lookups"
  /\ lookups[i].state = "pending"
  /\ lookups' = [lookups EXCEPT ![i].state = "failed"]
  /\ UNCHANGED <<countryCode, airportsPc, seen, airportsResponse>>
  /\ UNCHANGED <<coreVars, pageVars, routeVars, hookVars, formVars>>

\* Promise.all has resolved: the answer is built from seen.
AirportsRespond ==
  /\ airportsPc = "lookups"
  /\ \A i \in 1..Len(KEYWORDS) : lookups[i].state # "pending"
  /\ airportsResponse' = AirportsJson(200, NULL, airportsOf(seen))
  /\ airportsPc' = "done"
  /\ UNCHANGED <<countryCode, lookups, seen>>
  /\ UNCHANGED <<coreVars, pageVars, routeVars, hookVars, formVars>>

----------------------------------------------------------------------------
(* components/FlightSearchForm: the country and airport selects            *)
(*                                                                         *)
(* The country list is the one the mount effect loaded.  fetches lists the *)
(* airports fetches the two country effects have started, each with the    *)
(* field and country it was started for and the state of its promise.      *)

\* Airports fetches started in one behaviour.
MaxFetches == 3

COUNTRIES == {"US", "GB"}

\* The airports GET /api/locations/airports answers with for a country.
AirportsIn(code) == IF code = "US" THEN <<"JFK", "LGA">> ELSE <<"LHR">>

Fetch(field, code) == [field |-> field, countryCode |-> code, state |-> "pending"]

FormIdle ==
  /\ originCountryCode = ""
  /\ destinationCountryCode = ""
  /\ origin = ""
  /\ destination = ""
  /\ originAirports = <<>>
  /\ destinationAirports = <<>>
  /\ loadingOriginAirports = FALSE
  /\ loadingDestinationAirports = FALSE
  /\ fetches = <<>>

\* .then(setAirports(data.airports)) / .catch(setAirports([]))
airportsAfterFetch(fetched, ok) == IF ok THEN AirportsIn(fetched) ELSE <<>>

\* The origin country select: setOriginCountryCode(value),
\* setValue("origin", ""), then the effect of the render: the fetch starts.
OriginCountryChange(value) ==
  /\ value # originCountryCode
  /\ Len(fetches) < MaxFetches
  /\ originCountryCode' = value
  /\ origin' = ""
  /\ loadingOriginAirports' = TRUE
  /\ fetches' = Append(fetches, Fetch("origin", value))
  /\ UNCHANGED <<destinationCountryCode, destination, originAirports,
                 destinationAirports, loadingDestinationAirports>>
  /\ UNCHANGED <<coreVars, pageVars, routeVars, hookVars, airportsVars>>

DestinationCountryChange(value) ==
  /\ value # destinationCountryCode
  /\ Len(fetches) < MaxFetches
  /\ destinationCountryCode' = value
  /\ destination' = ""
  /\ loadingDestinationAirports' = TRUE
  /\ fetches' = Append(fetches, Fetch("destination", value))
  /\ UNCHANGED <<originCountryCode, origin, originAirports,
                 destinationAirports, loadingOriginAirports>>
  /\ UNCHANGED <<coreVars, pageVars, routeVars, hookVars, airportsVars>>

\* A fetch of the origin effect settles: then or catch, and finally.
OriginFetchSettles(k, ok) ==
  /\ k \in 1..Len(fetches)
  /\ fetches[k].field = "origin"
  /\ fetches[k].state = "pending"
  /\ fetches' = [fetches EXCEPT ![k].state = IF ok THEN "resolved"
                                             ELSE "rejected"]
  /\ originAirports' = airportsAfterFetch(fetches[k].countryCode, ok)
  /\ loadingOriginAirports' = FALSE
  /\ UNCHANGED <<originCountryCode, destinationCountryCode, origin,
                 destination, destinationAirports,
                 loadingDestinationAirports>>
  /\ UNCHANGED <<coreVars, pageVars, routeVars, hookVars, airportsVars>>

DestinationFetchSettles(k, ok) ==
  /\ k \in 1..Len(fetches)
  /\ fetches[k].field = "destination"
  /\ fetches[k].state = "pending"
  /\ fetches' = [fetches EXCEPT ![k].state = IF ok THEN "resolved"
                                             ELSE "rejected"]
  /\ destinationAirports' =
       airportsAfterFetch(fetches[k].countryCode, ok)
  /\ loadingDestinationAirports' = FALSE
  /\ UNCHANGED <<originCountryCode, destinationCountryCode, origin,
                 destination, originAirports, loadingOriginAirports>>
  /\ UNCHANGED <<coreVars, pageVars, routeVars, hookVars, airportsVars>>

\* The origin airport select, enabled with a country and no loading.
OriginSelect(value) ==
  /\ originCountryCode # ""
  /\ ~loadingOriginAirports
  /\ \E i \in 1..Len(originAirports) : originAirports[i] = value
  /\ origin' = value
  /\ UNCHANGED <<originCountryCode, destinationCountryCode, destination,
                 originAirports, destinationAirports, loadingOriginAirports,
                 loadingDestinationAirports, fetches>>
  /\ UNCHANGED <<coreVars, pageVars, routeVars, hookVars, airportsVars>>

DestinationSelect(value) ==
  /\ destinationCountryCode # ""
  /\ ~loadingDestinationAirports
  /\ \E i \in 1..Len(destinationAirports) : destinationAirports[i] = value
  /\ destination' = value
  /\ UNCHANGED <<originCountryCode, destinationCountryCode, origin,
                 originAirports, destinationAirports, loadingOriginAirports,
                 loadingDestinationAirports, fetches>>
  /\ UNCHANGED <<coreVars, pageVars, routeVars, hookVars, airportsVars>>

----------------------------------------------------------------------------
(* app/api/flights/search/route: POST, with lib/amadeus validate and client *)
(*                                                                         *)
(* One behaviour is one request.  A JSON value is a record of its type and *)
(* its string or number; a request body is invalid JSON, a non-object      *)
(* value, or an object with the seven fields the handler reads.            *)

Undefined == [t |-> "undefined", s |-> "", n |-> 0]

Str(x) == [t |-> "string", s |-> x, n |-> 0]

Numb(k) == [t |-> "number", s |-> "", n |-> k]

ObjectBody(o, d, dep, r, a, c, i) ==
  [kind |-> "object", origin |-> o, destination |-> d, departureDate |-> dep,
   returnDate |-> r, adults |-> a, children |-> c, infants |-> i]

\* A body that is not an object with fields: text that is not JSON, null, a
\* number, a string; an array is an object without the fields.
OtherBody(kind) ==
  [kind |-> kind, origin |-> Undefined, destination |-> Undefined,
   departureDate |-> Undefined, returnDate |-> Undefined,
   adults |-> Undefined, children |-> Undefined, infants |-> Undefined]

Bodies ==
  { OtherBody(k) : k \in {"invalid JSON", "null", "number", "string", "array"} }
  \cup
  { ObjectBody(o, d, dep, r, a, c, i) :
      o \in {Str("JFK"), Undefined, Numb(1)},
      d \in {Str("LHR"), Undefined},
      dep \in {Str("2026-01-10"), Undefined, Numb(20260110)},
      r \in {Str("2026-01-17"), Undefined},
      a \in {Undefined, Numb(2), Str("2")},
      c \in {Undefined, Numb(1)},
      i \in {Undefined, Numb(0), Str("1")} }

NoParams ==
  [valid |-> FALSE, origin |-> "", destination |-> "", departureDate |-> "",
   returnDate |-> Undefined, adults |-> 0, children |-> 0, infants |-> 0]

\* Variant: departureDate is not checked.
parseAndValidateBodyWithoutDate(body) ==
  IF \/ body.kind \notin {"object", "array"}
     \/ body.origin.t # "string"
     \/ body.destination.t # "string"
  THEN NoParams
  ELSE [valid |-> TRUE,
        origin |-> body.origin.s,
        destination |-> body.destination.s,
        departureDate |-> body.departureDate.s,
        returnDate |-> IF body.returnDate.t = "string" THEN body.returnDate
                       ELSE Undefined,
        adults |-> IF body.adults.t = "number" THEN body.adults.n ELSE 1,
        children |-> IF body.children.t = "number" THEN body.children.n
                     ELSE 0,
        infants |-> IF body.infants.t = "number" THEN body.infants.n ELSE 0]

\* parseAndValidateBody: null is NoParams.
parseAndValidateBody(body) ==
  IF \/ body.kind \notin {"object", "array"}
     \/ body.origin.t # "string"
     \/ body.destination.t # "string"
     \/ body.departureDate.t # "string"
  THEN NoParams
  ELSE [valid |-> TRUE,
        origin |-> body.origin.s,
        destination |-> body.destination.s,
        departureDate |-> body.departureDate.s,
        returnDate |-> IF body.returnDate.t = "string" THEN body.returnDate
                       ELSE Undefined,
        adults |-> IF body.adults.t = "number" THEN body.adults.n ELSE 1,
        children |-> IF body.children.t = "number" THEN body.children.n
                     ELSE 0,
        infants |-> IF body.infants.t = "number" THEN body.infants.n ELSE 0]

NoResponseYet == [status |-> 0, body |-> NULL]

JsonResponse(status, body) == [status |-> status, body |-> body]

\* Variant: the catch block answers with a gateway error.
upstreamErrorSurfaced == JsonResponse(502, "Amadeus API unavailable")

\* The catch block around the two upstream calls.
upstreamErrorResponse == JsonResponse(200, "MOCK_FLIGHT_SEARCH_RESPONSE")

NoUpstreamCall == [token |-> "not called", search |-> "not called"]

RouteIdle ==
  /\ reqBody = OtherBody("null")
  /\ credentials = FALSE
  /\ pc = "idle"
  /\ params = NoParams
  /\ upstream = NoUpstreamCall
  /\ response = NoResponseYet

----------------------------------------------------------------------------
(* app/page: Home, rendered with the useFlightSearch hook                  *)
(*                                                                         *)
(* A step is a handler or a completion of the search promise together with *)
(* the render it causes.  useEffect callbacks run after the render that    *)
(* the promise's completion commits (RunEffects); the renders caused by    *)
(* the user's own events run their effects in the same step, and no user   *)
(* event is handled while effects are pending.  The two useMemo cells keep *)
(* their dependencies next to their value.  bestValueFlightId is the memo  *)
(* of the revision of the page that shows the best-value badge.            *)

\* Longest offer list a search response carries.
MaxResponseLen == 2

PageOfferIds == {"1", "2", "a"}

PageOffers == { o \in Offers : o.id \in PageOfferIds }

Responses ==
  UNION { { s \in [1..n -> PageOffers] :
              \A i, j \in 1..n : i # j => s[i] # s[j] } :
          n \in 0..MaxResponseLen }

\* useFlightSearch's flights: null, or the response with its data.
NullResponse == [held |-> FALSE, data |-> <<>>]

Response(data) == [held |-> TRUE, data |-> data]

\* searchResponse?.data || []
AllFlights(resp) == resp.data

DefaultFilterState ==
  [stops |-> "all", priceRange |-> <<0, 1000>>, airlines |-> <<>>]

getInitialFilterState(fl) ==
  IF Len(fl) = 0 THEN DefaultFilterState
  ELSE [stops |-> "all", priceRange |-> getPriceRange(fl),
        airlines |-> <<>>]

\* Variant: the incoming state is stored as it is.
handleFilterChangeAsGiven(all, cur, new) == new

\* Variant: the price range is recomputed on every change.
handleFilterChangeAlwaysRecompute(all, cur, new) ==
  [new EXCEPT !.priceRange =
     getPriceRange(applyStopsAndAirlinesOnly(all, new.stops, new.airlines))]

airlinesChanged(cur, new) ==
  \/ Len(new.airlines) # Len(cur.airlines)
  \/ \E i \in 1..Len(new.airlines) : new.airlines[i] # cur.airlines[i]

cohortPriceRange(cohort) ==
  IF Len(cohort) > 0 THEN getPriceRange(cohort) ELSE <<0, 1000>>

\* The filter state handleFilterChange passes to setFilterState.
handleFilterChange(all, cur, new) ==
  IF new.stops # cur.stops \/ airlinesChanged(cur, new)
  THEN [new EXCEPT !.priceRange =
          cohortPriceRange(
            applyStopsAndAirlinesOnly(all, new.stops, new.airlines))]
  ELSE new

\* Variant: the memo is recomputed only when the length of the filtered
\* list changes.
useMemoBestValueByLength(prev, filtered) ==
  IF Len(prev.deps) = Len(filtered) THEN prev
  ELSE [deps |-> filtered, value |-> getBestValueFlightId(filtered)]

\* useMemo(..., [allFlights, filterState]) of filteredFlights.
useMemoFilteredFlights(prev, all, fState) ==
  IF prev.deps = <<all, fState>> THEN prev
  ELSE [deps |-> <<all, fState>>,
        value |-> IF Len(all) = 0 THEN <<>>
                  ELSE applyAllFilters(all, fState)]

\* useMemo(() => getBestValueFlightId(filteredFlights), [filteredFlights])
useMemoBestValue(prev, filtered) ==
  IF prev.deps = filtered THEN prev
  ELSE [deps |-> filtered, value |-> getBestValueFlightId(filtered)]

\* The render that follows a state change.
Render ==
  /\ filteredFlights' =
       useMemoFilteredFlights(filteredFlights, AllFlights(searchResponse'),
                              filterState')
  /\ bestValueFlightId' =
       useMemoBestValue(bestValueFlightId, filteredFlights'.value)

\* The filter state after the two effects of Home have run on a render
\* with these values: the initialising effect runs when allFlights.length
\* has changed, the reset effect last; prevLoadingRef holds the loading of
\* the previous run of the reset effect.
filterStateAfterEffects(all, fState, load, prevRef, lenDep) ==
  IF prevRef /\ ~load THEN getInitialFilterState(all)
  ELSE IF Len(all) # lenDep /\ Len(all) > 0 /\ fState.priceRange[2] = 1000
       THEN getInitialFilterState(all)
       ELSE fState

PageInit ==
  /\ searchResponse = NullResponse
  /\ loading = FALSE
  /\ error = NULL
  /\ filterState = DefaultFilterState
  /\ prevLoadingRef = FALSE
  /\ lengthDep = 0
  /\ effectsPending = FALSE
  /\ filteredFlights = [deps |-> <<<<>>, DefaultFilterState>>, value |-> <<>>]
  /\ bestValueFlightId = [deps |-> <<>>, value |-> NULL]

\* handleSearch -> search(params): the submit button is disabled while
\* loading.
HandleSearch ==
  /\ ~loading
  /\ ~effectsPending
  /\ loading' = TRUE
  /\ error' = NULL
  /\ filterState' =
       filterStateAfterEffects(AllFlights(searchResponse), filterState,
                               TRUE, prevLoadingRef, lengthDep)
  /\ prevLoadingRef' = TRUE
  /\ UNCHANGED <<searchResponse, lengthDep, effectsPending>>
  /\ Render
  /\ UNCHANGED <<coreVars, routeVars, hookVars, airportsVars, formVars>>

\* search: the promise resolves; setFlights and setLoading(false) are
\* rendered together, with the filter state that is current.
SearchSucceeds(data) ==
  /\ loading
  /\ searchResponse' = Response(data)
  /\ loading' = FALSE
  /\ effectsPending' = TRUE
  /\ UNCHANGED <<error, filterState, prevLoadingRef, lengthDep>>
  /\ Render
  /\ UNCHANGED <<coreVars, routeVars, hookVars, airportsVars, formVars>>

\* search: the promise rejects; setError and setLoading(false).
SearchFails ==
  /\ loading
  /\ error' = "Error"
  /\ loading' = FALSE
  /\ effectsPending' = TRUE
  /\ UNCHANGED <<searchResponse, filterState, prevLoadingRef, lengthDep>>
  /\ Render
  /\ UNCHANGED <<coreVars, routeVars, hookVars, airportsVars, formVars>>

\* The effects of the render a completion committed, and the render their
\* setFilterState causes.
RunEffects ==
  /\ effectsPending
  /\ filterState' =
       filterStateAfterEffects(AllFlights(searchResponse), filterState,
                               loading, prevLoadingRef, lengthDep)
  /\ prevLoadingRef' = loading
  /\ lengthDep' = Len(AllFlights(searchResponse))
  /\ effectsPending' = FALSE
  /\ UNCHANGED <<searchResponse, loading, error>>
  /\ Render
  /\ UNCHANGED <<coreVars, routeVars, hookVars, airportsVars, formVars>>

\* The Filters panel is rendered.
FiltersShown ==
  \/ Len(AllFlights(searchResponse)) > 0
  \/ ~loading /\ searchResponse.held

\* Filters -> onFilterChange(newFilterState).
HandleFilterChange(newFilterState) ==
  /\ ~effectsPending
  /\ FiltersShown
  /\ filterState' =
       handleFilterChange(AllFlights(searchResponse), filterState,
                          newFilterState)
  /\ UNCHANGED <<searchResponse, loading, error, prevLoadingRef, lengthDep,
                 effectsPending>>
  /\ Render
  /\ UNCHANGED <<coreVars, routeVars, hookVars, airportsVars, formVars>>

StopsOptions == {"all", "nonstop", "1stop", "2plus"}

HandleStopsChange(stops) ==
  HandleFilterChange([filterState EXCEPT !.stops = stops])

\* Thumb positions the model moves the price slider to, in steps of 10 from
\* the slider's minimum; a position past the maximum is the maximum.
SliderSteps == {0, 5, 10}

SliderValue(range, k) ==
  IF range[1] + 10 * k > range[2] THEN range[2] ELSE range[1] + 10 * k

HandlePriceRangeChange(lo, hi) ==
  /\ lo <= hi
  /\ HandleFilterChange(
       [filterState EXCEPT !.priceRange =
          <<SliderValue(getPriceRange(AllFlights(searchResponse)), lo),
            SliderValue(getPriceRange(AllFlights(searchResponse)), hi)>>])

\* The carrier codes of the catalogue in the order sort() gives them.
CarrierOrder == <<"AA", "BA", "DL">>

getAllAirlineCodes(fl) ==
  Filter(CarrierOrder,
         [k \in 1..Len(CarrierOrder) |->
            \E i \in 1..Len(fl) :
              Includes(getAirlineCodes(fl[i]), CarrierOrder[k])])

\* The checkbox of a listed airline: checked is the negation of what it
\* shows.
HandleAirlineToggle(airlineCode) ==
  /\ Includes(getAllAirlineCodes(AllFlights(searchResponse)), airlineCode)
  /\ HandleFilterChange(
       [filterState EXCEPT !.airlines =
          IF Includes(filterState.airlines, airlineCode)
          THEN Filter(filterState.airlines,
                      [k \in 1..Len(filterState.airlines) |->
                         filterState.airlines[k] # airlineCode])
          ELSE Append(filterState.airlines, airlineCode)])

HandleSelectAllAirlines ==
  HandleFilterChange(
    [filterState EXCEPT !.airlines =
       IF Len(filterState.airlines) =
            Len(getAllAirlineCodes(AllFlights(searchResponse)))
       THEN <<>>
       ELSE getAllAirlineCodes(AllFlights(searchResponse))])

CoreIdle ==
  /\ flights = <<>>
  /\ call = [op |-> "none"]
  /\ ret = NULL

InitPage ==
  CoreIdle /\ PageInit /\ RouteIdle /\ HookIdle /\ AirportsIdle /\ FormIdle

NextPage ==
  \/ HandleSearch
  \/ \E data \in Responses : SearchSucceeds(data)
  \/ SearchFails
  \/ RunEffects
  \/ \E stops \in StopsOptions : HandleStopsChange(stops)
  \/ \E lo, hi \in SliderSteps : HandlePriceRangeChange(lo, hi)
  \/ \E code \in {"AA", "BA", "DL"} : HandleAirlineToggle(code)
  \/ HandleSelectAllAirlines

SpecPage == InitPage /\ [][NextPage]_vars

\* The page with responses that carry offers of unusual price texts, and
\* the filter changes that derive a price range.
PriceResponses ==
  UNION { { s \in [1..n -> { o \in Offers : o.id \in {"1", "2", "n"} }] :
              \A i, j \in 1..n : i # j => s[i] # s[j] } :
          n \in 0..MaxResponseLen }

NextPagePrices ==
  \/ HandleSearch
  \/ \E data \in PriceResponses : SearchSucceeds(data)
  \/ RunEffects
  \/ \E stops \in StopsOptions : HandleStopsChange(stops)
  \/ \E code \in {"AA", "BA"} : HandleAirlineToggle(code)
  \/ HandleSelectAllAirlines

SpecPagePrices == InitPage /\ [][NextPagePrices]_vars

----------------------------------------------------------------------------
(* The steps of POST *)

InitRoute ==
  /\ CoreIdle
  /\ PageInit
  /\ HookIdle /\ AirportsIdle /\ FormIdle
  /\ reqBody \in Bodies
  /\ credentials \in BOOLEAN
  /\ pc = "body"
  /\ params = NoParams
  /\ upstream = NoUpstreamCall
  /\ response = NoResponseYet

\* request.json() and parseAndValidateBody inside the first try.
ReadBody ==
  /\ pc = "body"
  /\ IF reqBody.kind = "invalid JSON"
     THEN /\ response' = JsonResponse(400, "Invalid JSON body.")
          /\ pc' = "done"
          /\ UNCHANGED params
     ELSE IF ~parseAndValidateBody(reqBody).valid
          THEN /\ response' =
                    JsonResponse(400, "Invalid request. Required: origin, destination, departureDate.")
               /\ pc' = "done"
               /\ UNCHANGED params
          ELSE /\ params' = parseAndValidateBody(reqBody)
               /\ pc' = "token"
               /\ UNCHANGED response
  /\ UNCHANGED <<reqBody, credentials, upstream>>
  /\ UNCHANGED <<coreVars, pageVars, hookVars, airportsVars, formVars>>

\* getAmadeusAccessToken throws before any fetch when a credential is unset.
TokenWithoutCredentials ==
  /\ pc = "token"
  /\ ~credentials
  /\ response' = upstreamErrorResponse
  /\ pc' = "done"
  /\ UNCHANGED <<reqBody, credentials, params, upstream>>
  /\ UNCHANGED <<coreVars, pageVars, hookVars, airportsVars, formVars>>

\* getAmadeusAccessToken: the token fetch; it throws when the fetch fails
\* or the answer is not ok.
TokenFetch(ok) ==
  /\ pc = "token"
  /\ credentials
  /\ upstream' = [upstream EXCEPT !.token = IF ok THEN "ok" ELSE "failed"]
  /\ IF ok
     THEN pc' = "search" /\ UNCHANGED response
     ELSE pc' = "done" /\ response' = upstreamErrorResponse
  /\ UNCHANGED <<reqBody, credentials, params>>
  /\ UNCHANGED <<coreVars, pageVars, hookVars, airportsVars, formVars>>

\* searchAmadeusFlights: the flight-offers fetch.
SearchFetch(ok) ==
  /\ pc = "search"
  /\ upstream' = [upstream EXCEPT !.search = IF ok THEN "ok" ELSE "failed"]
  /\ response' = IF ok THEN JsonResponse(200, "upstream result")
                 ELSE upstreamErrorResponse
  /\ pc' = "done"
  /\ UNCHANGED <<reqBody, credentials, params>>
  /\ UNCHANGED <<coreVars, pageVars, hookVars, airportsVars, formVars>>

NextRoute ==
  \/ ReadBody
  \/ TokenWithoutCredentials
  \/ \E ok \in BOOLEAN : TokenFetch(ok)
  \/ \E ok \in BOOLEAN : SearchFetch(ok)

SpecRoute == InitRoute /\ [][NextRoute]_vars

----------------------------------------------------------------------------
(* Calls of the core functions on a drawn offer list *)

StopsValues == {"all", "nonstop", "1stop", "2plus", "direct"}

PriceRanges == {<<0, 100>>, <<100, 1000>>, <<91, 149>>}

AirlineSelections == {<<>>, <<"AA">>, <<"BA", "DL">>, <<"ZZ">>}

FilterStates ==
  { [stops |-> "all", priceRange |-> <<0, 100>>, airlines |-> <<>>],
    [stops |-> "all", priceRange |-> <<100, 1000>>, airlines |-> <<"AA">>],
    [stops |-> "nonstop", priceRange |-> <<0, 100>>, airlines |-> <<"AA">>],
    [stops |-> "nonstop", priceRange |-> <<91, 149>>,
     airlines |-> <<"BA", "DL">>],
    [stops |-> "1stop", priceRange |-> <<100, 1000>>,
     airlines |-> <<"BA", "DL">>],
    [stops |-> "2plus", priceRange |-> <<0, 100>>, airlines |-> <<"AA">>],
    [stops |-> "2plus", priceRange |-> <<100, 1000>>, airlines |-> <<>>],
    [stops |-> "direct", priceRange |-> <<0, 100>>, airlines |-> <<"ZZ">>] }

Cohorts == { <<fs.stops, fs.airlines>> : fs \in FilterStates }

\* Each behaviour is one call of one core function on one drawn list.
Idle == call.op = "none"

\* Variant: getBestValueFlightId ranks by calling sort on flights itself.
flightsAfterSortInPlace(fl, name) ==
  IF name = "getBestValueFlightId"
  THEN Sort(fl, [i \in 1..Len(fl), j \in 1..Len(fl) |->
                   CompareOfferPrice(fl[i], fl[j])])
  ELSE fl

\* The array passed as flights once the named function has returned.  The
\* filters and pipelines call only filter on it (or hand it back as it is),
\* getPriceRange and getBestValueFlightId only map; neither method changes
\* the array it is called on.  The two sorts of getBestValueFlightId
\* reorder fresh arrays: durations (map, then slice) and [...candidates].
flightsAfterCall(fl, name) == fl

Init ==
  /\ flights \in OfferLists
  /\ call = [op |-> "none"]
  /\ ret = NULL
  /\ PageInit
  /\ RouteIdle
  /\ HookIdle /\ AirportsIdle /\ FormIdle

FilterByStops(stops) ==
  /\ Idle
  /\ call' = [op |-> "filterByStops", stops |-> stops]
  /\ ret' = filterByStops(flights, stops)
  /\ flights' = flightsAfterCall(flights, "filterByStops")
  /\ UNCHANGED <<pageVars, routeVars, hookVars, airportsVars, formVars>>

FilterByPrice(min, max) ==
  /\ Idle
  /\ call' = [op |-> "filterByPrice", min |-> min, max |-> max]
  /\ ret' = filterByPrice(flights, min, max)
  /\ flights' = flightsAfterCall(flights, "filterByPrice")
  /\ UNCHANGED <<pageVars, routeVars, hookVars, airportsVars, formVars>>

FilterByAirlines(airlines) ==
  /\ Idle
  /\ call' = [op |-> "filterByAirlines", airlines |-> airlines]
  /\ ret' = filterByAirlines(flights, airlines)
  /\ flights' = flightsAfterCall(flights, "filterByAirlines")
  /\ UNCHANGED <<pageVars, routeVars, hookVars, airportsVars, formVars>>

ApplyStopsAndAirlinesOnly(stops, airlines) ==
  /\ Idle
  /\ call' = [op |-> "applyStopsAndAirlinesOnly", stops |-> stops,
              airlines |-> airlines]
  /\ ret' = applyStopsAndAirlinesOnly(flights, stops, airlines)
  /\ flights' = flightsAfterCall(flights, "applyStopsAndAirlinesOnly")
  /\ UNCHANGED <<pageVars, routeVars, hookVars, airportsVars, formVars>>

ApplyAllFilters(fState) ==
  /\ Idle
  /\ call' = [op |-> "applyAllFilters", filterState |-> fState]
  /\ ret' = applyAllFilters(flights, fState)
  /\ flights' = flightsAfterCall(flights, "applyAllFilters")
  /\ UNCHANGED <<pageVars, routeVars, hookVars, airportsVars, formVars>>

GetPriceRange ==
  /\ Idle
  /\ call' = [op |-> "getPriceRange"]
  /\ ret' = getPriceRange(flights)
  /\ flights' = flightsAfterCall(flights, "getPriceRange")
  /\ UNCHANGED <<pageVars, routeVars, hookVars, airportsVars, formVars>>

GetBestValueFlightId ==
  /\ Idle
  /\ call' = [op |-> "getBestValueFlightId"]
  /\ ret' = getBestValueFlightId(flights)
  /\ flights' = flightsAfterCall(flights, "getBestValueFlightId")
  /\ UNCHANGED <<pageVars, routeVars, hookVars, airportsVars, formVars>>

\* The strings the parsers are tried on.
PriceTexts ==
  {"", "abc", "12abc", "$100", " 42", ".5", "-", "1,200.50", "-50.5",
   "200.00", "0", "100"}

DurationTexts ==
  {"", "PT", "2h", "PT2h30m", "PT2H", "PT45M", "90M", "PT2H30M", "PT10H5M",
   "30M2H", "P1DT2H", "PT1H5", "12X3H"}

\* An offer "a" with a drawn price and duration text, next to an offer of
\* price 0 with the same itinerary whose id sorts before or after "a".
InitParse ==
  /\ \E total \in PriceTexts, dur \in DurationTexts, other \in {"1", "b"} :
       flights = <<Offer("a", total, <<Itinerary(dur, <<>>)>>),
                   Offer(other, "0", <<Itinerary(dur, <<>>)>>)>>
  /\ call = [op |-> "none"]
  /\ ret = NULL
  /\ PageInit
  /\ RouteIdle
  /\ HookIdle /\ AirportsIdle /\ FormIdle

ParsePrice ==
  /\ Idle
  /\ call' = [op |-> "parsePrice"]
  /\ ret' = parsePrice(flights[1].price.total)
  /\ UNCHANGED <<flights, pageVars, routeVars, hookVars, airportsVars, formVars>>

ParseDurationToMinutes ==
  /\ Idle
  /\ call' = [op |-> "parseDurationToMinutes"]
  /\ ret' = parseDurationToMinutes(flights[1].itineraries[1].duration)
  /\ UNCHANGED <<flights, pageVars, routeVars, hookVars, airportsVars, formVars>>

NextParse ==
  \/ ParsePrice
  \/ ParseDurationToMinutes
  \/ FilterByPrice(0, 0)
  \/ GetPriceRange
  \/ GetBestValueFlightId

SpecParse == InitParse /\ [][NextParse]_vars

Next ==
  \/ \E stops \in StopsValues : FilterByStops(stops)
  \/ \E r \in PriceRanges : FilterByPrice(r[1], r[2])
  \/ \E airlines \in AirlineSelections : FilterByAirlines(airlines)
  \/ \E c \in Cohorts : ApplyStopsAndAirlinesOnly(c[1], c[2])
  \/ \E fState \in FilterStates : ApplyAllFilters(fState)
  \/ GetPriceRange
  \/ GetBestValueFlightId

Spec == Init /\ [][Next]_vars

----------------------------------------------------------------------------
(* The hook under any caller, the hook under the search form, the airports *)
(* route, the search form *)

InitHook ==
  /\ CoreIdle /\ PageInit /\ RouteIdle /\ AirportsIdle /\ FormIdle
  /\ debounced \in BOOLEAN
  /\ isMountedRef = TRUE
  /\ hook = [flights |-> NoFlights, loading |-> FALSE, error |-> NULL]
  /\ debounceTimeoutRef = 0
  /\ timeout = 0
  /\ timers = {}
  /\ sent = <<>>
  /\ log = <<>>

NextHook ==
  \/ \E searchParams \in SearchParams : Search(searchParams)
  \/ \E searchParams \in SearchParams : DebouncedSearch(searchParams)
  \/ \E t \in timers : DebounceTimerFires(t)
  \/ \E k \in 1..MaxCalls : SearchFlightsResolves(k)
  \/ \E k \in 1..MaxCalls : SearchFlightsRejects(k)
  \/ Unmount
  \/ ClearError
  \/ \E args \in SearchParams : ExecutedFunction(args)
  \/ \E t \in timers : Later(t)

SpecHook == InitHook /\ [][NextHook]_vars

NextSubmit ==
  \/ \E searchParams \in SearchParams : OnFormSubmit(searchParams)
  \/ \E t \in timers : DebounceTimerFires(t)
  \/ \E k \in 1..MaxCalls : SearchFlightsResolves(k)
  \/ \E k \in 1..MaxCalls : SearchFlightsRejects(k)
  \/ Unmount
  \/ ClearError

SpecSubmit == InitHook /\ [][NextSubmit]_vars

\* A request settles: axios resolves or rejects within its 30 s timeout.
SearchSettles ==
  \E k \in 1..MaxCalls : SearchFlightsResolves(k) \/ SearchFlightsRejects(k)

\* The delay of an armed debounce timer elapses.
TimerElapses == \E t \in timers : DebounceTimerFires(t)

SpecSubmitLive ==
  SpecSubmit /\ WF_vars(SearchSettles) /\ WF_vars(TimerElapses)

InitAirports ==
  /\ CoreIdle /\ PageInit /\ HookIdle /\ FormIdle
  /\ reqBody = OtherBody("null")
  /\ credentials \in BOOLEAN
  /\ pc = "idle"
  /\ params = NoParams
  /\ upstream = NoUpstreamCall
  /\ response = NoResponseYet
  /\ airportsPc = "start"
  /\ countryCode \in CountryCodes
  /\ lookups = NoLookups
  /\ seen = <<>>
  /\ airportsResponse = NoAirportsResponse

NextAirports ==
  \/ CheckCountryCode
  \/ AirportsTokenFails
  \/ AirportsTokenArrives
  \/ \E i \in 1..Len(KEYWORDS), data \in LookupResults : LookupResolves(i, data)
  \/ \E i \in 1..Len(KEYWORDS) : LookupRejects(i)
  \/ AirportsRespond

SpecAirports == InitAirports /\ [][NextAirports]_vars

InitForm == CoreIdle /\ PageInit /\ RouteIdle /\ HookIdle /\ AirportsIdle /\ FormIdle

NextForm ==
  \/ \E value \in COUNTRIES : OriginCountryChange(value)
  \/ \E value \in COUNTRIES : DestinationCountryChange(value)
  \/ \E k \in 1..MaxFetches, ok \in BOOLEAN : OriginFetchSettles(k, ok)
  \/ \E k \in 1..MaxFetches, ok \in BOOLEAN : DestinationFetchSettles(k, ok)
  \/ \E value \in {"JFK", "LGA", "LHR"} : OriginSelect(value)
  \/ \E value \in {"JFK", "LGA", "LHR"} : DestinationSelect(value)

SpecForm == InitForm /\ [][NextForm]_vars

----------------------------------------------------------------------------
(* Vocabulary of the properties *)

OfferById(ident) == CHOOSE o \in Offers : o.id = ident

\* The three-offer best-value scenario.
Scenario3 == <<OfferById("1"), OfferById("2"), OfferById("3")>>

Ids(s) == [k \in 1..Len(s) |-> s[k].id]

Called(name) == call.op = name

\* Sum of numberOfStops over every segment of every itinerary.
StopsOf(o) ==
  SumSeq([k \in 1..Len(FlatSegments(o.itineraries)) |->
            FlatSegments(o.itineraries)[k].numberOfStops])

\* out holds exactly the elements of inp at the indices in K, in input order.
KeepsExactly(inp, out, K) ==
  /\ Len(out) = Cardinality(K)
  /\ \A i \in K : out[Cardinality({ j \in K : j <= i })] = inp[i]

\* out is a subsequence of inp.
IsSubsequence(out, inp) ==
  \E f \in [1..Len(out) -> 1..Len(inp)] :
    /\ \A k \in 1..Len(out) : out[k] = inp[f[k]]
    /\ \A k, l \in 1..Len(out) : k < l => f[k] < f[l]

\* k-th smallest total duration of the offers of fl, by counting.
KthDuration(fl, k) ==
  CHOOSE v \in { getTotalDurationMinutes(fl[i]) : i \in 1..Len(fl) } :
    /\ Cardinality({ i \in 1..Len(fl) :
                       getTotalDurationMinutes(fl[i]) < v }) < k
    /\ Cardinality({ i \in 1..Len(fl) :
                       getTotalDurationMinutes(fl[i]) <= v }) >= k

\* Twice the standard median of the total durations of a non-empty list.
TwiceMedian(fl) ==
  KthDuration(fl, (Len(fl) + 1) \div 2) + KthDuration(fl, Len(fl) \div 2 + 1)

\* Indices of the offers with stops <= 1 and duration <= 1.2 x median.
QualifyingIdx(fl) ==
  { i \in 1..Len(fl) :
      /\ StopsOf(fl[i]) <= 1
      /\ 10 * getTotalDurationMinutes(fl[i]) <= 6 * TwiceMedian(fl) }

CandidateIdx(fl) ==
  IF QualifyingIdx(fl) # {} THEN QualifyingIdx(fl) ELSE 1..Len(fl)

Permuted(s) ==
  { [k \in 1..Len(s) |-> s[p[k]]] :
      p \in { q \in [1..Len(s) -> 1..Len(s)] :
                \A i, j \in 1..Len(s) : i # j => q[i] # q[j] } }

----------------------------------------------------------------------------
(* Properties *)

\* C1 (as stated): in the three-offer scenario the median duration is 150
\* minutes, the threshold 180 minutes, offers "1" and "3" qualify and
\* getBestValueFlightId returns "3".
C1_AsStated ==
  (Called("getBestValueFlightId") /\ flights = Scenario3) =>
    /\ medianOf(withMeta(flights)) = 1500
    /\ maxDuration(medianOf(withMeta(flights))) = 1800
    /\ Ids(qualifyingOf(withMeta(flights))) = <<"1", "3">>
    /\ ret = "3"

\* C1 (amended): in the three-offer scenario the total durations are 120,
\* 120 and 150 minutes, so the median is 120 minutes and the threshold 144
\* minutes; only offer "1" qualifies and getBestValueFlightId returns "1".
C1_Scenario ==
  (Called("getBestValueFlightId") /\ flights = Scenario3) =>
    /\ medianOf(withMeta(flights)) = 1200
    /\ maxDuration(medianOf(withMeta(flights))) = 1440
    /\ Ids(qualifyingOf(withMeta(flights))) = <<"1">>
    /\ ret = "1"

C1_Witness ==
  Called("getBestValueFlightId") /\ flights = Scenario3 /\ ret = "1"

\* C2: for every offer list the bounds [min, max] returned by getPriceRange
\* satisfy min >= 0 and max - min >= 100.
C2_RangeWellFormed ==
  Called("getPriceRange") => ret[1] >= 0 /\ ret[2] - ret[1] >= 100

\* C3: getPriceRange returns (0, 1000) for an empty list; otherwise the lower
\* bound is the floor of the lowest parsed price clamped to at least 0, and
\* the upper bound is the ceiling of the highest parsed price, or lower + 100
\* when upper minus lower is below 100.
C3_RangeValue ==
  Called("getPriceRange") =>
    IF flights = <<>> THEN ret = <<0, 1000>>
    ELSE LET prices == { parsePrice(flights[i].price.total) :
                           i \in 1..Len(flights) }
             lower == Max2(0, Floor100(MinOf(prices)))
             upper == Ceil100(MaxOf(prices))
         IN ret = <<lower, IF upper - lower < 100 THEN lower + 100 ELSE upper>>

\* C4: getBestValueFlightId returns null exactly when the list is empty; for
\* a non-empty list it returns the id of an offer of the list, also when no
\* offer satisfies the stops/duration constraints.
C4_BestValueInList ==
  Called("getBestValueFlightId") =>
    /\ (ret = NULL) <=> (flights = <<>>)
    /\ flights # <<>> => \E i \in 1..Len(flights) : flights[i].id = ret

C4_Witness ==
  /\ Called("getBestValueFlightId")
  /\ flights # <<>>
  /\ QualifyingIdx(flights) = {}
  /\ \E i \in 1..Len(flights) : flights[i].id = ret

\* C5: getBestValueFlightId takes the standard median of the total durations
\* of all input offers, takes as candidates the offers with stops <= 1 and
\* duration <= 1.2 x median (all offers when none qualifies), and returns a
\* candidate whose parsed price is <= the price of every candidate.
C5_CheapestCandidate ==
  (Called("getBestValueFlightId") /\ flights # <<>>) =>
    /\ 2 * medianOf(withMeta(flights)) = 10 * TwiceMedian(flights)
    /\ \E i \in CandidateIdx(flights) :
         /\ flights[i].id = ret
         /\ \A j \in CandidateIdx(flights) :
              parsePrice(flights[i].price.total)
                <= parsePrice(flights[j].price.total)

C5_Witness ==
  /\ Called("getBestValueFlightId")
  /\ Len(flights) = 2
  /\ QualifyingIdx(flights) # {}
  /\ \E j \in 1..Len(flights) :
       /\ j \notin QualifyingIdx(flights)
       /\ \A i \in QualifyingIdx(flights) :
            parsePrice(flights[j].price.total)
              < parsePrice(flights[i].price.total)
  /\ \E i \in QualifyingIdx(flights) : flights[i].id = ret

\* C6: getBestValueFlightId does not depend on the order of the input: every
\* reordering of the list yields the same id, and among the candidates tied
\* on the lowest price the id returned is the smallest in ascending
\* lexicographic order (offers "b", "a" at price 150 yield "a").
C6_OrderIndependent ==
  Called("getBestValueFlightId") =>
    /\ \A p \in Permuted(flights) : getBestValueFlightId(p) = ret
    /\ \A i, j \in CandidateIdx(flights) :
         (/\ flights[i].id = ret
          /\ parsePrice(flights[j].price.total)
               = parsePrice(flights[i].price.total))
           => CompareChars(Chars[ret], Chars[flights[j].id]) <= 0
    /\ flights = <<OfferById("b"), OfferById("a")>> => ret = "a"

C6_Witness ==
  /\ Called("getBestValueFlightId")
  /\ flights = <<OfferById("b"), OfferById("a")>>
  /\ ret = "a"

\* C7: filterByStops keeps exactly the offers whose total stops equal 0 for
\* nonstop, equal 1 for 1stop, are >= 2 for 2plus; for all and for any
\* unrecognized criterion it returns every input offer unchanged.
C7_FilterByStops ==
  Called("filterByStops") =>
    CASE call.stops = "nonstop" ->
           KeepsExactly(flights, ret,
             { i \in 1..Len(flights) : StopsOf(flights[i]) = 0 })
      [] call.stops = "1stop" ->
           KeepsExactly(flights, ret,
             { i \in 1..Len(flights) : StopsOf(flights[i]) = 1 })
      [] call.stops = "2plus" ->
           KeepsExactly(flights, ret,
             { i \in 1..Len(flights) : StopsOf(flights[i]) >= 2 })
      [] OTHER -> ret = flights

C7_Witness ==
  /\ Called("filterByStops")
  /\ call.stops = "2plus"
  /\ Len(ret) = 2
  /\ Len(flights) = 3
  /\ \E k \in 1..Len(ret) : StopsOf(ret[k]) > 2

\* C8: filterByPrice(offers, min, max) keeps exactly the offers whose parsed
\* total price p satisfies min <= p <= max, both bounds inclusive: an offer
\* priced at min or at max is kept, an offer priced 200 is dropped for
\* [0, 100].
C8_FilterByPrice ==
  Called("filterByPrice") =>
    KeepsExactly(flights, ret,
      { i \in 1..Len(flights) :
          /\ call.min * 100 <= parsePrice(flights[i].price.total)
          /\ parsePrice(flights[i].price.total) <= call.max * 100 })

C8_Witness ==
  /\ Called("filterByPrice")
  /\ call.min = 0 /\ call.max = 100
  /\ flights = <<OfferById("c"), OfferById("1")>>
  /\ ret = <<OfferById("1")>>

\* C9: filterByAirlines returns every input offer when the selection is
\* empty; otherwise it keeps exactly the offers with at least one segment
\* carrier code in the selection.
C9_FilterByAirlines ==
  Called("filterByAirlines") =>
    IF call.airlines = <<>> THEN ret = flights
    ELSE KeepsExactly(flights, ret,
           { i \in 1..Len(flights) :
               \E it \in 1..Len(flights[i].itineraries) :
                 \E sg \in 1..Len(flights[i].itineraries[it].segments) :
                   \E k \in 1..Len(call.airlines) :
                     flights[i].itineraries[it].segments[sg].carrierCode
                       = call.airlines[k] })

C9_Witness ==
  /\ Called("filterByAirlines")
  /\ call.airlines = <<"AA">>
  /\ flights = <<OfferById("3"), OfferById("2")>>
  /\ ret = <<OfferById("2")>>

\* C10: the output of filterByStops, filterByPrice, filterByAirlines,
\* applyStopsAndAirlinesOnly and applyAllFilters is a subsequence of the
\* input list: nothing added or duplicated, input order kept.
C10_Subsequence ==
  call.op \in {"filterByStops", "filterByPrice", "filterByAirlines",
               "applyStopsAndAirlinesOnly", "applyAllFilters"}
    => IsSubsequence(ret, flights)

C10_Witness ==
  /\ Called("applyAllFilters")
  /\ Len(flights) = 3
  /\ Len(ret) = 2
  /\ ret[1] = flights[1]
  /\ ret[2] = flights[3]

\* C11: applyAllFilters returns exactly the offers that pass the stops, the
\* price and the airline predicate, in input order; composing the three
\* filters in any of the six orders gives that same list, and so does
\* filterByPrice applied to applyStopsAndAirlinesOnly.
PassesStops(o, stops) ==
  \/ stops \notin {"nonstop", "1stop", "2plus"}
  \/ stops = "nonstop" /\ StopsOf(o) = 0
  \/ stops = "1stop" /\ StopsOf(o) = 1
  \/ stops = "2plus" /\ StopsOf(o) >= 2

PassesPrice(o, range) ==
  /\ OrZero(parseFloat(o.price.total)) >= 100 * range[1]
  /\ OrZero(parseFloat(o.price.total)) <= 100 * range[2]

PassesAirlines(o, airlines) ==
  \/ airlines = <<>>
  \/ \E k \in 1..Len(FlatSegments(o.itineraries)) :
       Includes(airlines, FlatSegments(o.itineraries)[k].carrierCode)

PassesAll(o, fs) ==
  /\ PassesStops(o, fs.stops)
  /\ PassesPrice(o, fs.priceRange)
  /\ PassesAirlines(o, fs.airlines)

SixOrders(fl, fs) ==
  { filterByAirlines(filterByPrice(filterByStops(fl, fs.stops),
                                   fs.priceRange[1], fs.priceRange[2]),
                     fs.airlines),
    filterByPrice(filterByAirlines(filterByStops(fl, fs.stops),
                                   fs.airlines),
                  fs.priceRange[1], fs.priceRange[2]),
    filterByAirlines(filterByStops(filterByPrice(fl, fs.priceRange[1],
                                                 fs.priceRange[2]),
                                   fs.stops),
                     fs.airlines),
    filterByStops(filterByAirlines(filterByPrice(fl, fs.priceRange[1],
                                                 fs.priceRange[2]),
                                   fs.airlines),
                  fs.stops),
    filterByPrice(filterByStops(filterByAirlines(fl, fs.airlines),
                                fs.stops),
                  fs.priceRange[1], fs.priceRange[2]),
    filterByStops(filterByPrice(filterByAirlines(fl, fs.airlines),
                                fs.priceRange[1], fs.priceRange[2]),
                  fs.stops) }

C11_AllOrdersAgree ==
  Called("applyAllFilters") =>
    /\ KeepsExactly(flights, ret,
                    { i \in 1..Len(flights) :
                        PassesAll(flights[i], call.filterState) })
    /\ SixOrders(flights, call.filterState) = {ret}
    /\ ret = filterByPrice(
               applyStopsAndAirlinesOnly(flights, call.filterState.stops,
                                         call.filterState.airlines),
               call.filterState.priceRange[1],
               call.filterState.priceRange[2])

\* Each predicate alone rejects one offer of the list and one offer is kept.
C11_Witness ==
  /\ Called("applyAllFilters")
  /\ Len(ret) = 1
  /\ \E i, j \in 1..Len(flights) :
       /\ ~PassesStops(flights[i], call.filterState.stops)
       /\ PassesPrice(flights[i], call.filterState.priceRange)
       /\ PassesAirlines(flights[i], call.filterState.airlines)
       /\ PassesStops(flights[j], call.filterState.stops)
       /\ PassesPrice(flights[j], call.filterState.priceRange)
       /\ ~PassesAirlines(flights[j], call.filterState.airlines)

\* Offers the type permits but no real itinerary produces.
NoItineraries(o) == o.itineraries = <<>>

NoSegments(o) ==
  /\ o.itineraries # <<>>
  /\ \A k \in 1..Len(o.itineraries) : o.itineraries[k].segments = <<>>

FilterCalls ==
  {"filterByStops", "filterByPrice", "filterByAirlines",
   "applyStopsAndAirlinesOnly", "applyAllFilters"}

\* The call that was made handed back a value of the shape it promises.
ResultReturned ==
  /\ call.op \in FilterCalls => IsSubsequence(ret, flights)
  /\ Called("getPriceRange") =>
       /\ ret \in Int \X Int
       /\ ret[1] >= 0
  /\ Called("getBestValueFlightId") =>
       IF flights = <<>> THEN ret = NULL
       ELSE \E i \in 1..Len(flights) : ret = flights[i].id

\* C15 (as stated): an offer with zero itineraries, or with itineraries of
\* zero segments, has total stops 0, no airline codes and total duration 0,
\* and every core function returns a result for a list containing it.
C15_AsStated ==
  \A i \in 1..Len(flights) :
    (NoItineraries(flights[i]) \/ NoSegments(flights[i])) =>
      /\ getTotalStops(flights[i]) = 0
      /\ getAirlineCodes(flights[i]) = <<>>
      /\ getTotalDurationMinutes(flights[i]) = 0
      /\ ResultReturned

\* C15 (amended): such an offer has total stops 0 and no airline codes; its
\* total duration is 0 when it has no itinerary and otherwise the sum of
\* its itineraries' own duration strings, segments or not (45 minutes for
\* offer "n"); every core function returns a result for a list containing
\* it.
C15_Degenerate ==
  \A i \in 1..Len(flights) :
    (NoItineraries(flights[i]) \/ NoSegments(flights[i])) =>
      /\ getTotalStops(flights[i]) = 0
      /\ getAirlineCodes(flights[i]) = <<>>
      /\ NoItineraries(flights[i]) =>
           getTotalDurationMinutes(flights[i]) = 0
      /\ getTotalDurationMinutes(flights[i]) =
           SumSeq([k \in 1..Len(flights[i].itineraries) |->
                     parseDurationToMinutes(
                       flights[i].itineraries[k].duration)])
      /\ flights[i].id = "n" => getTotalDurationMinutes(flights[i]) = 45
      /\ ResultReturned

\* A best-value call on a list holding an offer of each degenerate kind.
C15_Witness ==
  /\ Called("getBestValueFlightId")
  /\ \E i, j \in 1..Len(flights) :
       NoItineraries(flights[i]) /\ NoSegments(flights[j])
  /\ ret # NULL

\* The offers of all that pass the stops and the airline predicate.
CohortOf(all, stops, airlines) ==
  Filter(all, [i \in 1..Len(all) |->
                 /\ PassesStops(all[i], stops)
                 /\ PassesAirlines(all[i], airlines)])

CohortRange(all, stops, airlines) ==
  IF CohortOf(all, stops, airlines) = <<>> THEN <<0, 1000>>
  ELSE getPriceRange(CohortOf(all, stops, airlines))

\* A step in which the Filters panel called handleFilterChange.
FilterChangeStep ==
  \/ \E stops \in StopsOptions : HandleStopsChange(stops)
  \/ \E lo, hi \in SliderSteps : HandlePriceRangeChange(lo, hi)
  \/ \E code \in {"AA", "BA", "DL"} : HandleAirlineToggle(code)
  \/ HandleSelectAllAirlines

\* C12: a handleFilterChange call that changes the stops value or the
\* airline selection stores getPriceRange of the cohort of the new stops and
\* airlines, (0, 1000) when that cohort is empty, whatever price range the
\* incoming state carried.
C12_CohortChangeRecomputes ==
  [][(/\ \/ filterState'.stops # filterState.stops
         \/ filterState'.airlines # filterState.airlines
      /\ FilterChangeStep)
       => filterState'.priceRange =
            CohortRange(AllFlights(searchResponse), filterState'.stops,
                        filterState'.airlines)]_vars

\* A narrowed cohort whose range differs from the range of all offers; the
\* empty cohort with the default range.
C12_Witness ==
  /\ ~effectsPending
  /\ filterState.stops # "all"
  /\ filterState.airlines # <<>>
  /\ CohortOf(AllFlights(searchResponse), filterState.stops,
              filterState.airlines) # <<>>
  /\ filterState.priceRange # getPriceRange(AllFlights(searchResponse))
  /\ filterState.priceRange =
       CohortRange(AllFlights(searchResponse), filterState.stops,
                   filterState.airlines)

\* The state the price slider passes to handleFilterChange for two thumb
\* positions.
SliderState(lo, hi) ==
  [stops |-> filterState.stops,
   airlines |-> filterState.airlines,
   priceRange |->
     <<SliderValue(getPriceRange(AllFlights(searchResponse)), lo),
       SliderValue(getPriceRange(AllFlights(searchResponse)), hi)>>]

\* C13: wherever the Filters panel can call it, handleFilterChange with an
\* incoming state that differs from the current one only in priceRange
\* stores the incoming state as it is: the incoming priceRange, no cohort
\* range, and stops and airlines as they were.
C13_PriceOnlyStoredAsGiven ==
  (FiltersShown /\ ~effectsPending) =>
    \A lo, hi \in SliderSteps :
      lo <= hi =>
        handleFilterChange(AllFlights(searchResponse), filterState,
                           SliderState(lo, hi)) = SliderState(lo, hi)

\* A stored range the user narrowed inside a cohort that is not the whole
\* list: it is neither the range of the cohort nor of all offers.
C13_Witness ==
  /\ ~effectsPending
  /\ filterState.stops # "all"
  /\ filterState.priceRange[1] >
       CohortRange(AllFlights(searchResponse), filterState.stops,
                   filterState.airlines)[1]
  /\ filterState.priceRange[2] <
       getPriceRange(AllFlights(searchResponse))[2]

C19_BestValueCurrent ==
  /\ filteredFlights.value =
       IF AllFlights(searchResponse) = <<>> THEN <<>>
       ELSE applyAllFilters(AllFlights(searchResponse), filterState)
  /\ bestValueFlightId.value = getBestValueFlightId(filteredFlights.value)
  /\ IF filteredFlights.value = <<>> THEN bestValueFlightId.value = NULL
     ELSE \E i \in 1..Len(filteredFlights.value) :
            bestValueFlightId.value = filteredFlights.value[i].id

\* The filters have changed which offer is the best value.
C19_Witness ==
  /\ bestValueFlightId.value # NULL
  /\ Len(filteredFlights.value) < Len(AllFlights(searchResponse))
  /\ bestValueFlightId.value #
       getBestValueFlightId(AllFlights(searchResponse))

ExpectedPrice ==
     "" :> 0 @@ "abc" :> 0 @@ "$100" :> 0 @@ "-" :> 0
  @@ "12abc" :> 1200 @@ "1,200.50" :> 100
  @@ " 42" :> 4200 @@ ".5" :> 50 @@ "-50.5" :> 0 - 5050
  @@ "200.00" :> 20000 @@ "0" :> 0 @@ "100" :> 10000

\* 60 x hours + minutes of each duration text, a missing group counting 0.
ExpectedMinutes ==
     "" :> 0 @@ "PT" :> 0 @@ "2h" :> 0 @@ "PT2h30m" :> 0
  @@ "PT2H" :> 120 @@ "PT45M" :> 45 @@ "90M" :> 90 @@ "PT2H30M" :> 150
  @@ "PT10H5M" :> 605 @@ "30M2H" :> 150 @@ "P1DT2H" :> 120
  @@ "PT1H5" :> 60 @@ "12X3H" :> 180

\* Price texts that are empty or do not spell a number.
NonNumericTexts == {"", "abc", "12abc", "$100", "-", "1,200.50"}

\* The three functions behave as if the first offer's price were p
\* hundredths, the second offer's price being 0.
TreatedAsPrice(p) ==
  /\ Called("parsePrice") => ret = p
  /\ Called("filterByPrice") =>
       ret = IF p = 0 THEN flights ELSE <<flights[2]>>
  /\ Called("getPriceRange") =>
       ret = <<0, Max2(Ceil100(Max2(p, 0)), Floor100(MinOf({p, 0})) + 100)>>
  /\ Called("getBestValueFlightId") =>
       ret = IF p < 0 \/ (p = 0 /\ flights[2].id = "b") THEN "a"
             ELSE flights[2].id

DurationAsStated ==
  Called("parseDurationToMinutes") =>
    ret = ExpectedMinutes[flights[1].itineraries[1].duration]

WellFormed(body) ==
  /\ body.kind = "object"
  /\ body.origin.t = "string"
  /\ body.destination.t = "string"
  /\ body.departureDate.t = "string"

\* C17: a well-formed request is answered with status 200: with the
\* upstream result when the token step and the search step both succeed,
\* with the static mock response when the credentials are unset or either
\* step fails; no other status is ever given to it.
C17_WellFormedAnswered ==
  WellFormed(reqBody) =>
    /\ response.status \in {0, 200}
    /\ pc = "done" =>
         /\ response.status = 200
         /\ response.body =
              IF upstream.token = "ok" /\ upstream.search = "ok"
              THEN "upstream result"
              ELSE "MOCK_FLIGHT_SEARCH_RESPONSE"
         /\ ~credentials => upstream = NoUpstreamCall

\* The token step succeeded, the search step failed, the mock was served.
C17_Witness ==
  /\ pc = "done"
  /\ WellFormed(reqBody)
  /\ upstream = [token |-> "ok", search |-> "failed"]
  /\ response = JsonResponse(200, "MOCK_FLIGHT_SEARCH_RESPONSE")

\* C20: a body that is not valid JSON, or not an object with string origin,
\* destination and departureDate, is answered with status 400 and no
\* upstream token or search call is made for it; in accepted parameters a
\* passenger count that is omitted or not a number is adults 1, children 0,
\* infants 0.
C20_InvalidRejected ==
  /\ ~WellFormed(reqBody) =>
       /\ upstream = NoUpstreamCall
       /\ pc \in {"body", "done"}
       /\ pc = "done" => response.status = 400
  /\ params.valid =>
       /\ reqBody.adults.t # "number" => params.adults = 1
       /\ reqBody.children.t # "number" => params.children = 0
       /\ reqBody.infants.t # "number" => params.infants = 0
       /\ reqBody.adults.t = "number" => params.adults = reqBody.adults.n

\* A JSON object with origin and destination whose departureDate is a
\* number has been rejected.
C20_Witness ==
  /\ pc = "done"
  /\ reqBody.kind = "object"
  /\ reqBody.origin.t = "string"
  /\ reqBody.destination.t = "string"
  /\ reqBody.departureDate.t = "number"
  /\ reqBody.adults.t = "string"
  /\ response.status = 400

----------------------------------------------------------------------------
(* useFlightSearch, the airports route and the search form *)

\* A step in which search (or performSearch) got past its mounted check.
SearchStarts == Len(sent') = Len(sent) + 1

\* A step in which search was called in the second revision.
DebounceStarts ==
  /\ debounced
  /\ Len(log') = Len(log) + 1
  /\ log'[Len(log')].ev = "call"
  /\ log'[Len(log')].fn = "search"

SettlesAs(k, state) ==
  /\ k \in 1..Len(sent)
  /\ sent[k].state = "pending"
  /\ Len(sent') = Len(sent)
  /\ sent'[k].state = state

\* C21: while the component is mounted and the form drives the hook, a step
\* that starts a search leaves loading true and error null; a step in which
\* a search fails leaves error set, loading false and flights as they were;
\* a step in which the k-th search succeeds leaves flights the response of
\* that search, loading false and error null.
C21_SearchOutcomes ==
  [][isMountedRef =>
       /\ (SearchStarts \/ DebounceStarts) =>
            hook'.loading /\ hook'.error = NULL
       /\ \A k \in 1..MaxCalls :
            /\ SettlesAs(k, "rejected") =>
                 /\ hook'.error # NULL
                 /\ ~hook'.loading
                 /\ hook'.flights = hook.flights
            /\ SettlesAs(k, "resolved") =>
                 /\ hook'.flights = ResponseOf(k)
                 /\ ~hook'.loading
                 /\ hook'.error = NULL]_vars

\* A search has failed while the response of an earlier one is held, and a
\* later one has succeeded.
C21_Witness ==
  /\ isMountedRef
  /\ Len(sent) = 3
  /\ sent[1].state = "resolved"
  /\ sent[2].state = "rejected"
  /\ sent[3].state = "resolved"
  /\ hook.flights = ResponseOf(3)

\* The timers armed for the hook's performSearch.
HookTimers(table) == { t \in table : t.fn = "performSearch" }

\* C22: once the component has unmounted, no step changes flights, loading
\* or error, none sends a request, and none arms a timer for the hook; the
\* unmount itself leaves no timer of the hook armed.
C22_AsStated ==
  [][/\ ~isMountedRef =>
          /\ hook' = hook
          /\ Len(sent') = Len(sent)
          /\ HookTimers(timers') \subseteq HookTimers(timers)
     /\ (isMountedRef /\ ~isMountedRef') => HookTimers(timers') = {}]_vars

\* The events of one debounced function, in order.
EventsOf(fn) == SelectSeq(log, LAMBDA e : e.fn = fn)

\* The armed timers that will run the function debounced by fn.
ArmedFor(fn) ==
  { t \in timers : t.fn = IF fn = "search" THEN "performSearch" ELSE "later" }

\* The debounced functions of the behaviour: debounce's executedFunction,
\* and search in the second revision of the hook.
DebouncedFunctions ==
  IF debounced THEN {"search", "executedFunction"} ELSE {"executedFunction"}

\* C23: the underlying function runs only straight after the last call of
\* a burst and with the arguments of that call (every run follows a call
\* of the same arguments, never another run and never the call before an
\* earlier one); at most one timer is armed, and while the burst is open
\* (the last event is a call; for the hook, while mounted) exactly the
\* timer of that last call is armed, so that one run is still to come.
C23_OneRunPerBurst ==
  \A fn \in DebouncedFunctions :
    /\ \A i \in 1..Len(EventsOf(fn)) :
         EventsOf(fn)[i].ev = "run" =>
           /\ i > 1
           /\ EventsOf(fn)[i - 1].ev = "call"
           /\ EventsOf(fn)[i - 1].args = EventsOf(fn)[i].args
    /\ Cardinality(ArmedFor(fn)) <= 1
    /\ (fn = "executedFunction" \/ isMountedRef) =>
         IF Len(EventsOf(fn)) > 0 /\ EventsOf(fn)[Len(EventsOf(fn))].ev = "call"
         THEN { t.args : t \in ArmedFor(fn) } =
                {EventsOf(fn)[Len(EventsOf(fn))].args}
         ELSE ArmedFor(fn) = {}

\* A burst of two calls of the debounced search with different arguments
\* has ended with its run.
C23_Witness ==
  /\ debounced
  /\ Len(EventsOf("search")) = 3
  /\ EventsOf("search")[1].ev = "call"
  /\ EventsOf("search")[2].ev = "call"
  /\ EventsOf("search")[3].ev = "run"
  /\ EventsOf("search")[1].args # EventsOf("search")[2].args
  /\ Len(sent) = 1
  /\ sent[1].params = EventsOf("search")[2].args

\* The IATA codes found by the lookups that succeeded.
CodesFound ==
  UNION { { lookups[i].data[j].iataCode :
              j \in { j \in 1..Len(lookups[i].data) :
                        lookups[i].data[j].iataCode # "" } } :
          i \in { i \in 1..Len(KEYWORDS) : lookups[i].state = "ok" } }

CountryCodeAccepted == countryCode.present /\ Len(countryCode.chars) = 2

LookupsStarted == \E i \in 1..Len(KEYWORDS) : lookups[i].state # "not started"

\* C24: the answer of GET /api/locations/airports is 400 for a missing or
\* non-2-character countryCode; 200 with no airports when the token could
\* not be had; and otherwise, whatever the order in which the lookups
\* settled and whichever of them failed, 200 with every IATA code the
\* successful lookups found, each exactly once, and no other.  While a
\* lookup is pending all lookups have been started.
C24_AirportsAnswer ==
  /\ airportsPc = "lookups" =>
       \A i \in 1..Len(KEYWORDS) : lookups[i].state # "not started"
  /\ airportsPc = "done" =>
       IF ~CountryCodeAccepted
       THEN airportsResponse.status = 400 /\ ~LookupsStarted
       ELSE IF ~LookupsStarted
       THEN airportsResponse.status = 200 /\ airportsResponse.airports = <<>>
       ELSE /\ airportsResponse.status = 200
            /\ \A i, j \in 1..Len(airportsResponse.airports) :
                 i # j => airportsResponse.airports[i].iataCode #
                          airportsResponse.airports[j].iataCode
            /\ { airportsResponse.airports[i].iataCode :
                   i \in 1..Len(airportsResponse.airports) } = CodesFound

\* The request is answered after one lookup failed and two lookups found
\* the same code, next to another code.
C24_Witness ==
  /\ airportsPc = "done"
  /\ \E i \in 1..Len(KEYWORDS) : lookups[i].state = "failed"
  /\ \E i, j \in 1..Len(KEYWORDS) :
       /\ i # j
       /\ lookups[i].data = <<Location("JFK", "b")>>
       /\ lookups[j].data = <<Location("LGA", "a"), Location("JFK", "m")>>
  /\ Len(airportsResponse.airports) = 2

FetchesOf(fs, field) == SelectSeq(fs, LAMBDA f : f.field = field)

NoFetchPending(fs, field) ==
  \A k \in 1..Len(FetchesOf(fs, field)) :
    FetchesOf(fs, field)[k].state # "pending"

\* What the latest fetch of the field, the one for the selected country,
\* has answered.
FetchedForCurrent(fs, field, code) ==
  IF code = "" \/ FetchesOf(fs, field) = <<>> THEN <<>>
  ELSE IF FetchesOf(fs, field)[Len(FetchesOf(fs, field))].state = "resolved"
       THEN AirportsIn(code)
       ELSE <<>>

CurrentFetchPending(fs, field) ==
  /\ FetchesOf(fs, field) # <<>>
  /\ FetchesOf(fs, field)[Len(FetchesOf(fs, field))].state = "pending"

\* What C25 says of one field after a step.
AirportsFollowCountry(fs, field, code, shown, loadingFlag) ==
  /\ NoFetchPending(fs, field) => shown = FetchedForCurrent(fs, field, code)
  /\ CurrentFetchPending(fs, field) => loadingFlag

\* C25: a change of the origin or destination country clears the selected
\* airport and starts a fetch for that country; after every step, once no
\* fetch of the field is pending the airports shown are those fetched for
\* the selected country, and the loading flag is set while the fetch for
\* the selected country is pending.
C25_AsStated ==
  [][/\ originCountryCode' # originCountryCode =>
          /\ origin' = ""
          /\ CurrentFetchPending(fetches', "origin")
     /\ destinationCountryCode' # destinationCountryCode =>
          /\ destination' = ""
          /\ CurrentFetchPending(fetches', "destination")
     /\ AirportsFollowCountry(fetches', "origin", originCountryCode',
                              originAirports', loadingOriginAirports')
     /\ AirportsFollowCountry(fetches', "destination",
                              destinationCountryCode', destinationAirports',
                              loadingDestinationAirports')]_vars

\* The searchFlights calls whose promise has not settled.
InFlight == { k \in 1..Len(sent) : sent[k].state = "pending" }

\* A search is under way: its debounce timer is armed or its request is in
\* flight.
SearchPending == InFlight # {} \/ HookTimers(timers) # {}

Succeeded == { k \in 1..Len(sent) : sent[k].state = "resolved" }

\* C26: with the form driving the hook, at most one search is under way at
\* any time (one request in flight, or one debounce timer armed and no
\* request); while the component is mounted loading is true exactly while a
\* search is under way, and the flights held are the response of the latest
\* search that succeeded (none before the first success).
C26_OneSearchAtATime ==
  /\ Cardinality(InFlight) + Cardinality(HookTimers(timers)) <= 1
  /\ isMountedRef =>
       /\ hook.loading <=> SearchPending
       /\ hook.flights = IF Succeeded = {} THEN NoFlights
                         ELSE ResponseOf(MaxOf(Succeeded))

\* A second search is in flight while the response of the first is held.
C26_Witness ==
  /\ isMountedRef
  /\ Len(sent) = 2
  /\ sent[1].state = "resolved"
  /\ sent[2].state = "pending"
  /\ hook.loading
  /\ hook.flights = ResponseOf(1)

\* C27: when requests settle and timers elapse, every state in which the
\* mounted component is loading is followed by a state in which loading is
\* false, unless the component unmounts first.
C27_LoadingEnds ==
  (isMountedRef /\ hook.loading) ~> (~hook.loading \/ ~isMountedRef)

\* The only search failed and the mounted component is no longer loading.
C27_Witness ==
  /\ isMountedRef
  /\ Len(sent) = 1
  /\ sent[1].state = "rejected"
  /\ ~hook.loading
  /\ hook.error # NULL

\* A step that stores a freshly derived price range: the reset effect after
\* a search completed, or a change of stops or airlines in the Filters
\* panel.
FreshRangeStep ==
  \/ effectsPending /\ ~effectsPending' /\ prevLoadingRef /\ ~loading
  \/ /\ ~effectsPending
     /\ searchResponse' = searchResponse
     /\ loading' = loading
     /\ \/ filterState'.stops # filterState.stops
        \/ filterState'.airlines # filterState.airlines

\* C28: right after a step that stores a freshly derived price range,
\* applyAllFilters with the stored filter state returns exactly the cohort,
\* applyStopsAndAirlinesOnly for the stored stops and airlines; right after
\* a reset that is every offer of the response.
C28_AsStated ==
  [][FreshRangeStep =>
       /\ applyAllFilters(AllFlights(searchResponse'), filterState') =
            applyStopsAndAirlinesOnly(AllFlights(searchResponse'),
                                      filterState'.stops,
                                      filterState'.airlines)
       /\ (effectsPending /\ ~effectsPending') =>
            applyAllFilters(AllFlights(searchResponse'), filterState') =
              AllFlights(searchResponse')]_vars

\* C29: in every page state, filterByAirlines with every available airline
\* code of the held response selected returns what it returns with nothing
\* selected, on the response and on its offers of the chosen stops; and
\* the stored airline selection holds no code twice and only codes that
\* occur in the held response.
C29_AsStated ==
  /\ \A fl \in {AllFlights(searchResponse),
                filterByStops(AllFlights(searchResponse), filterState.stops)} :
       filterByAirlines(fl, getAllAirlineCodes(AllFlights(searchResponse))) =
         filterByAirlines(fl, <<>>)
  /\ \A i, j \in 1..Len(filterState.airlines) :
       i # j => filterState.airlines[i] # filterState.airlines[j]
  /\ \A i \in 1..Len(filterState.airlines) :
       Includes(getAllAirlineCodes(AllFlights(searchResponse)),
                filterState.airlines[i])

====
